---------------------------- MODULE Spec2Model ----------------------------
(***************************************************************************)
(* A model of the middle end of the Scooter compiler: the literal Pool,    *)
(* the scoped SymbolTable and the index Mapper built on it, the            *)
(* LoweringEngine that turns an AST into three-address instructions, and   *)
(* the Resolver and TypeCk passes.                                         *)
(*                                                                         *)
(* Rust's Option<T> is modelled as a sequence: None is <<>>, Some(v) is    *)
(* <<v>>.  A HashMap is a function whose domain is the set of its keys.    *)
(* A panic (unwrap on None, todo!()) is a terminal status of the component *)
(* that raised it.                                                         *)
(***************************************************************************)
EXTENDS Integers, Sequences, FiniteSets, TLC

VARIABLES
    pool,       \* shared/pool.rs Pool<i32>: [values, lookup]
    pool_hist,  \* history of the Pool.insert calls made: <<value, returned index>>
    mapper,     \* ir/mapper.rs Mapper: [table, next]
    m_status,   \* "ok", or "panic" once Mapper.down unwrapped a missing previous
    m_hist,     \* history of the Mapper operations made
    ast,        \* ast/mod.rs File: the items of the file being compiled
    le,         \* ir/lower.rs LoweringEngine: [instrs, name_map, fn_map, pool, next_temp]
    le_pc,      \* where the lowering traversal stands: [phase, item, stmt]
    le_fns,     \* per function item entered: its label and the recorded position
    ir,         \* what LoweringEngine.lower returned: None until it returns
    resolver,   \* resolution/mod.rs Resolver: [table, mode]; TypeCk owns it later
    tc_result,  \* sema/typeck.rs TypeCk.result
    tc_pc,      \* where the resolver passes and the type check stand: [phase, item]
    tc_log,     \* per function item type-checked: what visit_item_fn computed
    made,       \* ir/instr.rs: the instructions built by direct calls of the constructors
    readable,   \* ir/mod.rs: how IRRoot.human_readable over them ended; None until run
    sema,       \* sema/mod.rs SemaEngine.analyses: the registered analyses, each [main, params]
    sema_result,\* what SemaEngine.run returned: None until it returns
    regs,       \* asm/register.rs RegMgr<N>: [registers, free]
    reg_hist    \* history of the RegMgr operations made: [op, index, result]

vars == <<pool, pool_hist, mapper, m_status, m_hist, ast, le, le_pc, le_fns, ir,
          resolver, tc_result, tc_pc, tc_log, made, readable,
          sema, sema_result, regs, reg_hist>>

(***************************************************************************)
(* Bounds of the model.                                                    *)
(***************************************************************************)
MaxPoolValue == 2
MaxPoolInserts == 4
MaxMapperOps == 6
MaxFileSize == 4
MaxBodyStmts == 2
MaxMade == 1
MaxDecls == 3
MaxAnalyses == 2
NumRegs == 3
MaxRegOps == 3

(***************************************************************************)
(* Option and HashMap.                                                     *)
(***************************************************************************)
None == <<>>
Some(v) == <<v>>
IsSome(o) == o /= <<>>
Unwrap(o) == o[1]

EmptyMap == [k \in {} |-> 0]
MapGet(m, k) == IF k \in DOMAIN m THEN Some(m[k]) ELSE None
MapInsert(m, k, v) == [x \in DOMAIN m \cup {k} |-> IF x = k THEN v ELSE m[x]]

(***************************************************************************)
(* shared/pool.rs                                                          *)
(***************************************************************************)
Pool_new == [values |-> <<>>, lookup |-> EmptyMap]

\* A pool that never consults its lookup table: every insert appends.
Pool_insert_NoDedup(p, value) ==
    [self |-> [values |-> Append(p.values, value),
               lookup |-> MapInsert(p.lookup, value, Len(p.values))],
     ret  |-> Len(p.values)]

\* Pool::insert: the updated pool and the index returned.
Pool_insert(p, value) ==
    IF IsSome(MapGet(p.lookup, value))
    THEN [self |-> p, ret |-> Unwrap(MapGet(p.lookup, value))]
    ELSE [self |-> [values |-> Append(p.values, value),
                    lookup |-> MapInsert(p.lookup, value, Len(p.values))],
          ret  |-> Len(p.values)]

\* Pool::index_of
Pool_index_of(p, value) == MapGet(p.lookup, value)

\* Pool::value_of: Vec::get on a 0-based index.
Pool_value_of(p, index) ==
    IF index >= 0 /\ index < Len(p.values) THEN Some(p.values[index + 1]) ELSE None

(***************************************************************************)
(* ir/table.rs                                                             *)
(***************************************************************************)
SymbolTable_new == [previous |-> None, symbols |-> EmptyMap]

SymbolTable_with_previous(self, previous) ==
    [self EXCEPT !.previous = Some(previous)]

\* A lookup that forgets the enclosing scopes.
SymbolTable_find_CurrentOnly(t, symbol) == MapGet(t.symbols, symbol)

RECURSIVE SymbolTable_find(_, _)
SymbolTable_find(t, symbol) ==
    IF IsSome(MapGet(t.symbols, symbol))
    THEN MapGet(t.symbols, symbol)
    ELSE IF IsSome(t.previous)
         THEN SymbolTable_find(Unwrap(t.previous), symbol)
         ELSE None

SymbolTable_insert(t, symbol, value) ==
    [t EXCEPT !.symbols = MapInsert(t.symbols, symbol, value)]

RECURSIVE SymbolTable_depth(_)
SymbolTable_depth(t) ==
    IF IsSome(t.previous) THEN 1 + SymbolTable_depth(Unwrap(t.previous)) ELSE 1

(***************************************************************************)
(* ir/mapper.rs                                                            *)
(***************************************************************************)
Mapper_new == [table |-> SymbolTable_new, next |-> 0]

\* An insert that hands back the index a visible binding of the name already has.
Mapper_insert_Reuse(m, value) ==
    IF IsSome(SymbolTable_find(m.table, value))
    THEN [self |-> [m EXCEPT !.table = SymbolTable_insert(m.table, value,
                                          Unwrap(SymbolTable_find(m.table, value)))],
          ret  |-> Unwrap(SymbolTable_find(m.table, value))]
    ELSE [self |-> [table |-> SymbolTable_insert(m.table, value, m.next),
                    next  |-> m.next + 1],
          ret  |-> m.next]

\* Mapper::insert: the updated mapper and the index returned.
Mapper_insert(m, value) ==
    [self |-> [table |-> SymbolTable_insert(m.table, value, m.next),
               next  |-> m.next + 1],
     ret  |-> m.next]

\* Mapper::find before its unwrap: None is the case in which the unwrap panics.
Mapper_find(m, value) == SymbolTable_find(m.table, value)

\* Mapper::up
Mapper_up(m) ==
    [m EXCEPT !.table = SymbolTable_with_previous(SymbolTable_new, m.table)]

\* A pop that keeps the bindings of the scope it discards.
Mapper_down_Leak(m) ==
    [m EXCEPT !.table =
        [previous |-> Unwrap(m.table.previous).previous,
         symbols  |-> [k \in DOMAIN Unwrap(m.table.previous).symbols
                              \cup DOMAIN m.table.symbols |->
                          IF k \in DOMAIN m.table.symbols
                          THEN m.table.symbols[k]
                          ELSE Unwrap(m.table.previous).symbols[k]]]]

\* A pop that leaves the current scope in place.
Mapper_down_Stay(m) == m

\* Mapper::down when a previous table exists (else the unwrap panics).
Mapper_down(m) == [m EXCEPT !.table = Unwrap(m.table.previous)]

Mapper_can_down(m) == IsSome(m.table.previous)


(***************************************************************************)
(* The Pool on its own: any sequence of Pool.insert calls.                 *)
(***************************************************************************)
PoolValues == 0..MaxPoolValue

PoolInit ==
    /\ pool = Pool_new
    /\ pool_hist = <<>>

PoolIdle == UNCHANGED <<pool, pool_hist>>

\* One call pool.insert(v); the call and the index it returned are recorded.
PoolInsert(v) ==
    /\ Len(pool_hist) < MaxPoolInserts
    /\ pool' = Pool_insert(pool, v).self
    /\ pool_hist' = Append(pool_hist, <<v, Pool_insert(pool, v).ret>>)

(***************************************************************************)
(* The Mapper on its own: any sequence of insert, up and down.             *)
(***************************************************************************)
MapperNames == {"x", "y"}

\* What find answers for every name, as an Option.
MapperFinds(m) == [n \in MapperNames |-> Mapper_find(m, n)]

MapperInit ==
    /\ mapper = Mapper_new
    /\ m_status = "ok"
    /\ m_hist = <<>>

MapperIdle == UNCHANGED <<mapper, m_status, m_hist>>

MapperRecord(op, name, ret, m) ==
    Append(m_hist, [op |-> op, name |-> name, ret |-> ret, finds |-> MapperFinds(m)])

MapperInsert(name) ==
    /\ m_status = "ok"
    /\ Len(m_hist) < MaxMapperOps
    /\ mapper' = Mapper_insert(mapper, name).self
    /\ m_hist' = MapperRecord("insert", name, Mapper_insert(mapper, name).ret,
                              Mapper_insert(mapper, name).self)
    /\ UNCHANGED m_status

MapperUp ==
    /\ m_status = "ok"
    /\ Len(m_hist) < MaxMapperOps
    /\ mapper' = Mapper_up(mapper)
    /\ m_hist' = MapperRecord("up", "", 0, Mapper_up(mapper))
    /\ UNCHANGED m_status

\* Mapper::down: `previous.clone().unwrap()` panics on the root table, before
\* anything is assigned.
MapperDown ==
    /\ m_status = "ok"
    /\ Len(m_hist) < MaxMapperOps
    /\ IF Mapper_can_down(mapper)
       THEN /\ mapper' = Mapper_down(mapper)
            /\ m_hist' = MapperRecord("down", "", 0, Mapper_down(mapper))
            /\ UNCHANGED m_status
       ELSE /\ m_status' = "panic"
            /\ m_hist' = MapperRecord("down_panic", "", 0, mapper)
            /\ UNCHANGED mapper

(***************************************************************************)
(* ast/mod.rs: the tree the passes walk.  Spans and tokens are left out.   *)
(* Expr::Struct is left out: LoweringEngine::process_expr and              *)
(* TypeCk::typeck_expr have no arm for it.                                 *)
(***************************************************************************)
Lit(n) == [kind |-> "Lit", value |-> n]
Ident(s) == [kind |-> "Ident", repr |-> s]
Binary(l, o, r) == [kind |-> "Binary", lhs |-> l, op |-> o, rhs |-> r]
CallFn(f, args) == [kind |-> "Call", ident |-> f, args |-> args]

Local(x, ty, e) == [kind |-> "Local", ident |-> x, ty |-> ty, expr |-> e]
ExprStmt(e) == [kind |-> "Expr", expr |-> e]
Return(e) == [kind |-> "Return", expr |-> e]

ItemFn(f, nparams, ty, body) ==
    [kind |-> "Fn", ident |-> f, params |-> nparams, ty |-> ty, body |-> body]
ItemStruct(s, fields) == [kind |-> "Struct", ident |-> s, fields |-> fields]
\* An impl block; items is the sequence of the bodies of its functions.
ItemImpl(s, items) == [kind |-> "Impl", ident |-> s, items |-> items]

(***************************************************************************)
(* ir/instr.rs                                                             *)
(***************************************************************************)
AddrName(i) == [kind |-> "Name", index |-> i]
AddrConst(i) == [kind |-> "Const", index |-> i]
AddrTemp(i) == [kind |-> "Temp", index |-> i]

BinInstr_new(da, la, op, ra) ==
    [kind |-> "Binary", label |-> None, da |-> da, la |-> la, op |-> op, ra |-> ra]
CopyInstr_new(da, ad) == [kind |-> "Copy", label |-> None, da |-> da, ad |-> ad]
ParamInstr_new(ad) == [kind |-> "Param", label |-> None, ad |-> ad]
RetInstr_new(ad) == [kind |-> "Return", label |-> None, ad |-> ad]
CallInstr_new(da, fl, n) == [kind |-> "Call", label |-> None, da |-> da, fl |-> fl, n |-> n]

HasDest(instr) == instr.kind \in {"Binary", "Unary", "Copy", "Call"}

\* Instr::da: None stands for the panic of the Param and Return arms.
Instr_da(instr) == IF HasDest(instr) THEN Some(instr.da) ELSE None

\* Instr::set_label
Instr_set_label(instr, label) == [instr EXCEPT !.label = Some(label)]

(***************************************************************************)
(* ir/lower.rs.  Indices into instrs are the 0-based indices of the Vec;   *)
(* the instruction with index i is instrs[i + 1].  A panic stops the       *)
(* traversal: panic names it, every later step leaves the engine alone.    *)
(* calls records, per Call instruction emitted, the callee it was lowered  *)
(* from.                                                                   *)
(***************************************************************************)
LoweringEngine_new ==
    [instrs    |-> <<>>,
     name_map  |-> Mapper_new,
     fn_map    |-> Mapper_new,
     pool      |-> Pool_new,
     next_temp |-> 0,
     panic     |-> "",
     panic_at  |-> "",
     calls     |-> <<>>]

Panicked(st) == st.panic /= ""
Panic(st, why, name) == [st EXCEPT !.panic = why, !.panic_at = name]
InstrAt(st, i) == st.instrs[i + 1]

\* instrs.push(..); instrs.len() - 1
Push(st, instr) ==
    [st |-> [st EXCEPT !.instrs = Append(@, instr)], i |-> Len(st.instrs)]

\* A temp that hands out the counter without advancing it.
LoweringEngine_temp_Stuck(st) == st

\* LoweringEngine::temp, as the engine after the call; the index handed out
\* is the next_temp before it.
LoweringEngine_temp(st) == [st EXCEPT !.next_temp = @ + 1]

\* A literal lowered with the two addresses of its Copy exchanged.
ProcessExpr_Lit_Swapped(st, e) ==
    LET ins == Pool_insert(st.pool, e.value)
        t   == LoweringEngine_temp([st EXCEPT !.pool = ins.self])
    IN Push(t, CopyInstr_new(AddrConst(ins.ret), AddrTemp(st.next_temp)))

\* process_expr, Expr::Lit
ProcessExpr_Lit(st, e) ==
    LET ins == Pool_insert(st.pool, e.value)
        t   == LoweringEngine_temp([st EXCEPT !.pool = ins.self])
    IN Push(t, CopyInstr_new(AddrTemp(st.next_temp), AddrConst(ins.ret)))

\* An identifier lowered to a Copy with destination and source exchanged.
ProcessExpr_Ident_Swapped(st, e) ==
    LET found == Mapper_find(st.name_map, e.repr)
    IN IF found = None
       THEN [st |-> Panic(st, "UnresolvedName", e.repr), i |-> 0]
       ELSE Push(LoweringEngine_temp(st),
                 CopyInstr_new(AddrName(Unwrap(found)), AddrTemp(st.next_temp)))

\* An identifier that, when unbound, is read from the next Name index.
ProcessExpr_Ident_Lenient(st, e) ==
    LET found == Mapper_find(st.name_map, e.repr)
    IN Push(LoweringEngine_temp(st),
            CopyInstr_new(AddrTemp(st.next_temp),
                          AddrName(IF found = None THEN st.name_map.next
                                   ELSE Unwrap(found))))

\* process_expr, Expr::Ident
ProcessExpr_Ident(st, e) ==
    LET found == Mapper_find(st.name_map, e.repr)
    IN IF found = None
       THEN [st |-> Panic(st, "UnresolvedName", e.repr), i |-> 0]
       ELSE Push(LoweringEngine_temp(st),
                 CopyInstr_new(AddrTemp(st.next_temp), AddrName(Unwrap(found))))

\* process_expr, Expr::Binary: the Op of an OpKind
Op_of(kind) == IF kind = "Add" THEN "Plus" ELSE "Mult"

\* A Binary instruction with its two operand addresses exchanged.
ProcessExpr_Binary_Swapped(st, li, op, ri) ==
    LET la == Instr_da(InstrAt(st, li))
        ra == Instr_da(InstrAt(st, ri))
    IN IF la = None \/ ra = None
       THEN [st |-> Panic(st, "NoDestination", ""), i |-> 0]
       ELSE Push(LoweringEngine_temp(st),
                 BinInstr_new(AddrTemp(st.next_temp), Unwrap(ra), op, Unwrap(la)))

\* process_expr, Expr::Binary, once both operands are lowered to li and ri
ProcessExpr_Binary(st, li, op, ri) ==
    LET la == Instr_da(InstrAt(st, li))
        ra == Instr_da(InstrAt(st, ri))
    IN IF la = None \/ ra = None
       THEN [st |-> Panic(st, "NoDestination", ""), i |-> 0]
       ELSE Push(LoweringEngine_temp(st),
                 BinInstr_new(AddrTemp(st.next_temp), Unwrap(la), op, Unwrap(ra)))

\* A call lowered to a Call instruction that counts no argument.
ProcessExpr_Call_NoCount(st, e) ==
    LET t     == LoweringEngine_temp(st)
        found == Mapper_find(t.fn_map, e.ident)
    IN IF found = None
       THEN [st |-> Panic(t, "UnresolvedFn", e.ident), i |-> 0]
       ELSE Push([t EXCEPT !.calls = Append(@, [i |-> Len(t.instrs), ident |-> e.ident])],
                 CallInstr_new(AddrTemp(st.next_temp), Unwrap(found), 0))

\* process_expr, Expr::Call, once the arguments are lowered
ProcessExpr_Call(st, e) ==
    LET t     == LoweringEngine_temp(st)
        found == Mapper_find(t.fn_map, e.ident)
    IN IF found = None
       THEN [st |-> Panic(t, "UnresolvedFn", e.ident), i |-> 0]
       ELSE Push([t EXCEPT !.calls = Append(@, [i |-> Len(t.instrs), ident |-> e.ident])],
                 CallInstr_new(AddrTemp(st.next_temp), Unwrap(found), Len(e.args)))

\* A process_args that emits no Param for the argument.
ProcessArgs_Param_Skip(st, i) == st

\* process_args, one argument lowered to i: the Param instruction for it
ProcessArgs_Param(st, i) ==
    LET ad == Instr_da(InstrAt(st, i))
    IN IF ad = None
       THEN Panic(st, "NoDestination", "")
       ELSE Push(st, ParamInstr_new(Unwrap(ad))).st

RECURSIVE ProcessExpr(_, _)
RECURSIVE ProcessArgs(_, _)

\* LoweringEngine::process_expr: the engine after it and the index returned.
ProcessExpr(st, e) ==
    IF Panicked(st) THEN [st |-> st, i |-> 0]
    ELSE CASE e.kind = "Binary" ->
                LET l == ProcessExpr(st, e.lhs)
                    r == ProcessExpr(l.st, e.rhs)
                IN IF Panicked(r.st) THEN [st |-> r.st, i |-> 0]
                   ELSE ProcessExpr_Binary(r.st, l.i, Op_of(e.op), r.i)
           [] e.kind = "Call" ->
                LET a == ProcessArgs(st, e.args)
                IN IF Panicked(a) THEN [st |-> a, i |-> 0]
                   ELSE ProcessExpr_Call(a, e)
           [] e.kind = "Ident" -> ProcessExpr_Ident(st, e)
           [] e.kind = "Lit" -> ProcessExpr_Lit(st, e)

\* LoweringEngine::process_args: the engine after the loop.
ProcessArgs(st, args) ==
    IF Panicked(st) \/ args = <<>> THEN st
    ELSE LET r == ProcessExpr(st, Head(args))
         IN IF Panicked(r.st) THEN r.st
            ELSE ProcessArgs(ProcessArgs_Param(r.st, r.i), Tail(args))

\* A visit_stmt that binds the name of a let before lowering its expression.
VisitStmt_BindFirst(st, stmt) ==
    LET ins == Mapper_insert(st.name_map, stmt.ident)
        r   == ProcessExpr(IF stmt.kind = "Local"
                           THEN [st EXCEPT !.name_map = ins.self] ELSE st,
                           stmt.expr)
        ad  == Instr_da(InstrAt(r.st, r.i))
    IN IF Panicked(r.st) THEN r.st
       ELSE IF ad = None THEN Panic(r.st, "NoDestination", "")
       ELSE CASE stmt.kind = "Local" ->
                   Push(r.st, CopyInstr_new(AddrName(ins.ret), Unwrap(ad))).st
              [] stmt.kind = "Expr" ->
                   Push(LoweringEngine_temp(r.st),
                        CopyInstr_new(AddrTemp(r.st.next_temp), Unwrap(ad))).st
              [] stmt.kind = "Return" ->
                   Push(r.st, RetInstr_new(Unwrap(ad))).st

\* LoweringEngine::visit_stmt
VisitStmt(st, stmt) ==
    LET r  == ProcessExpr(st, stmt.expr)
        ad == Instr_da(InstrAt(r.st, r.i))
    IN IF Panicked(r.st) THEN r.st
       ELSE IF ad = None THEN Panic(r.st, "NoDestination", "")
       ELSE CASE stmt.kind = "Local" ->
                   LET ins == Mapper_insert(r.st.name_map, stmt.ident)
                   IN Push([r.st EXCEPT !.name_map = ins.self],
                           CopyInstr_new(AddrName(ins.ret), Unwrap(ad))).st
              [] stmt.kind = "Expr" ->
                   Push(LoweringEngine_temp(r.st),
                        CopyInstr_new(AddrTemp(r.st.next_temp), Unwrap(ad))).st
              [] stmt.kind = "Return" ->
                   Push(r.st, RetInstr_new(Unwrap(ad))).st

\* visit_block: visit_stmt on every statement in order.
RECURSIVE VisitBlock(_, _)
VisitBlock(st, stmts) ==
    IF Panicked(st) \/ stmts = <<>> THEN st
    ELSE VisitBlock(VisitStmt(st, Head(stmts)), Tail(stmts))

\* visit_item_impl: the default walk reaches visit_block for the body of every
\* function of the impl, in the scope the engine is in.
RECURSIVE VisitItemImpl(_, _)
VisitItemImpl(st, bodies) ==
    IF Panicked(st) \/ bodies = <<>> THEN st
    ELSE VisitItemImpl(VisitBlock(st, Head(bodies)), Tail(bodies))

(***************************************************************************)
(* The lowering traversal, one step per item or statement visited.         *)
(***************************************************************************)
LowerInit ==
    /\ le = LoweringEngine_new
    /\ le_pc = [phase |-> "item", item |-> 1, stmt |-> 0]
    /\ le_fns = <<>>
    /\ ir = None

LowerIdle == UNCHANGED <<le, le_pc, le_fns, ir>>

AtItem(kind) ==
    /\ le_pc.phase = "item"
    /\ le_pc.item <= Len(ast)
    /\ ast[le_pc.item].kind = kind

\* visit_item_fn up to the call of visit_block: the name scope is pushed, the
\* function gets its label, the next instruction index is noted.
LowerEnterFn ==
    /\ AtItem("Fn")
    /\ LET ins == Mapper_insert(le.fn_map, ast[le_pc.item].ident)
       IN /\ le' = [le EXCEPT !.name_map = Mapper_up(le.name_map),
                               !.fn_map = ins.self]
          /\ le_fns' = Append(le_fns, [item  |-> le_pc.item,
                                       ident |-> ast[le_pc.item].ident,
                                       label |-> ins.ret,
                                       index |-> Len(le.instrs),
                                       ended |-> FALSE])
    /\ le_pc' = [le_pc EXCEPT !.phase = "body", !.stmt = 1]
    /\ UNCHANGED <<ast, ir>>

\* visit_stmt on the next statement of the body.
LowerStmt ==
    /\ le_pc.phase = "body"
    /\ le_pc.stmt <= Len(ast[le_pc.item].body)
    /\ le' = VisitStmt(le, ast[le_pc.item].body[le_pc.stmt])
    /\ le_pc' = IF Panicked(le')
                THEN [le_pc EXCEPT !.phase = "panic"]
                ELSE [le_pc EXCEPT !.stmt = @ + 1]
    /\ UNCHANGED <<ast, le_fns, ir>>

\* visit_item_fn after visit_block: instrs.get_mut(index).unwrap().set_label,
\* then the name scope is popped.
LowerExitFn ==
    /\ le_pc.phase = "body"
    /\ le_pc.stmt > Len(ast[le_pc.item].body)
    /\ LET f == le_fns[Len(le_fns)]
       IN /\ le_fns' = [le_fns EXCEPT ![Len(le_fns)].ended = TRUE]
          /\ IF f.index >= Len(le.instrs)
             THEN /\ le' = Panic(le, "NoInstruction", f.ident)
                  /\ le_pc' = [le_pc EXCEPT !.phase = "panic"]
             ELSE IF ~Mapper_can_down(le.name_map)
             THEN /\ le' = Panic(le, "NoPrevious", f.ident)
                  /\ le_pc' = [le_pc EXCEPT !.phase = "panic"]
             ELSE /\ le' = [le EXCEPT
                              !.instrs[f.index + 1] = Instr_set_label(@, f.label),
                              !.name_map = Mapper_down(le.name_map)]
                  /\ le_pc' = [le_pc EXCEPT !.phase = "item", !.item = @ + 1]
    /\ UNCHANGED <<ast, ir>>

\* A struct item: the default walk visits its identifier and fields, which
\* the engine does not override.
LowerItemStruct ==
    /\ AtItem("Struct")
    /\ le_pc' = [le_pc EXCEPT !.item = @ + 1]
    /\ UNCHANGED <<ast, le, le_fns, ir>>

\* An impl item: the statements of its functions are lowered where the engine
\* stands; no scope is pushed and no label is given.
LowerItemImpl ==
    /\ AtItem("Impl")
    /\ le' = VisitItemImpl(le, ast[le_pc.item].items)
    /\ le_pc' = IF Panicked(le')
                THEN [le_pc EXCEPT !.phase = "panic"]
                ELSE [le_pc EXCEPT !.item = @ + 1]
    /\ UNCHANGED <<ast, le_fns, ir>>

\* Stands for usize::MAX, the value `0 - 1` wraps to: the largest number the
\* model checker represents, larger than every index the model reaches.
UsizeMax == 2147483647

IRRoot(last_label) ==
    [last_label |-> last_label, interner |-> le.pool, instrs |-> le.instrs]

\* LoweringEngine::lower after visit_file: `fn_map.next - 1` on a usize.  With
\* next = 0 the subtraction overflows: a panic where overflow checks are on,
\* usize::MAX where they are off.
LowerFinish ==
    /\ le_pc.phase = "item"
    /\ le_pc.item > Len(ast)
    /\ IF le.fn_map.next > 0
       THEN /\ ir' = Some(IRRoot(le.fn_map.next - 1))
            /\ le_pc' = [le_pc EXCEPT !.phase = "done"]
            /\ UNCHANGED le
       ELSE \/ /\ le' = Panic(le, "Overflow", "")
               /\ le_pc' = [le_pc EXCEPT !.phase = "panic"]
               /\ UNCHANGED ir
            \/ /\ ir' = Some(IRRoot(UsizeMax))
               /\ le_pc' = [le_pc EXCEPT !.phase = "done"]
               /\ UNCHANGED le
    /\ UNCHANGED <<ast, le_fns>>

(***************************************************************************)
(* ir/mod.rs: IRRoot.human_readable.  A text is the tuple of its parts, a  *)
(* line the tuple of its texts; the padding of the label column is left    *)
(* out.  Panic is the result of a panic!, an unwrap of None or a todo!.    *)
(***************************************************************************)
Text(t) == [tag |-> "Ok", text |-> t]
ReadablePanic == [tag |-> "Panic"]

\* IRRoot::addr_readable
IRRoot_addr_readable(root, addr, is_d) ==
    CASE addr.kind = "Name" -> Text(<<"x", addr.index>>)
      [] addr.kind = "Temp" -> Text(<<"t", addr.index>>)
      [] addr.kind = "Const" /\ ~is_d ->
            IF IsSome(Pool_value_of(root.interner, addr.index))
            THEN Text(<<Unwrap(Pool_value_of(root.interner, addr.index))>>)
            ELSE ReadablePanic
      [] OTHER -> ReadablePanic

\* IRRoot::label_readable
IRRoot_label_readable(label) == Text(<<"l", label>>)

\* op_readable
op_readable(op) == Text(IF op = "Plus" THEN <<"+">> ELSE <<"*">>)

\* The line of writeln!, a panic if one of its parts panicked.
Line(parts) ==
    IF \E p \in DOMAIN parts : parts[p].tag = "Panic" THEN ReadablePanic
    ELSE [tag |-> "Ok", text |-> [p \in DOMAIN parts |-> parts[p].text]]

\* human_readable, the body of the loop for one instruction
IRRoot_instr_readable(root, instr) ==
    CASE instr.kind = "Binary" ->
            Line(<<IRRoot_addr_readable(root, instr.da, TRUE),
                   IRRoot_addr_readable(root, instr.la, FALSE),
                   op_readable(instr.op),
                   IRRoot_addr_readable(root, instr.ra, FALSE)>>)
      [] instr.kind = "Copy" ->
            Line(<<IRRoot_addr_readable(root, instr.da, TRUE),
                   IRRoot_addr_readable(root, instr.ad, FALSE)>>)
      [] instr.kind = "Return" ->
            Line(<<Text(<<"ret">>), IRRoot_addr_readable(root, instr.ad, FALSE)>>)
      [] instr.kind = "Call" ->
            Line(<<IRRoot_addr_readable(root, instr.da, FALSE),
                   Text(<<"call">>), IRRoot_label_readable(instr.fl), Text(<<instr.n>>)>>)
      [] instr.kind = "Param" ->
            Line(<<Text(<<"param">>), IRRoot_addr_readable(root, instr.ad, FALSE)>>)
      [] OTHER -> ReadablePanic

\* IRRoot::human_readable: the lines written, or the panic of the first
\* instruction that cannot be rendered.
IRRoot_human_readable(root) ==
    IF \E p \in DOMAIN root.instrs :
           IRRoot_instr_readable(root, root.instrs[p]).tag = "Panic"
    THEN ReadablePanic
    ELSE [tag |-> "Ok",
          lines |-> [p \in DOMAIN root.instrs |->
                        IRRoot_instr_readable(root, root.instrs[p]).text]]

(***************************************************************************)
(* The constructors of ir/instr.rs called directly, and the sequence of    *)
(* the instructions built rendered as an IRRoot.                           *)
(***************************************************************************)
AddrIndices == {0, 1}
Addrs == {AddrName(i) : i \in AddrIndices} \cup {AddrConst(i) : i \in AddrIndices}
             \cup {AddrTemp(i) : i \in AddrIndices}

\* The literal pool of the IRRoot rendered: the values 1 and 2 interned.
InstrPool == Pool_insert(Pool_insert(Pool_new, 1).self, 2).self

InstrInit ==
    /\ made = <<>>
    /\ readable = None

InstrIdle == UNCHANGED <<made, readable>>

CanMake ==
    /\ Len(made) < MaxMade
    /\ readable = None

\* BinInstr::new
InstrMakeBinary ==
    /\ CanMake
    /\ \E da \in Addrs, la \in Addrs, ra \in Addrs :
          made' = Append(made, BinInstr_new(da, la, "Plus", ra))
    /\ UNCHANGED readable

\* CopyInstr::new
InstrMakeCopy ==
    /\ CanMake
    /\ \E da \in Addrs, ad \in Addrs : made' = Append(made, CopyInstr_new(da, ad))
    /\ UNCHANGED readable

\* CallInstr::new
InstrMakeCall ==
    /\ CanMake
    /\ \E da \in Addrs, n \in 0..1 : made' = Append(made, CallInstr_new(da, 0, n))
    /\ UNCHANGED readable

\* IRRoot::human_readable over the instructions built
InstrHumanReadable ==
    /\ readable = None
    /\ made /= <<>>
    /\ readable' = Some(IRRoot_human_readable(
                            [last_label |-> 0, interner |-> InstrPool, instrs |-> made]))
    /\ UNCHANGED made

(***************************************************************************)
(* resolution/mod.rs                                                       *)
(***************************************************************************)
TypePrimitive(repr) == [kind |-> "Primitive", repr |-> repr]
TypeStruct(path, fields) == [kind |-> "Struct", path |-> path, fields |-> fields]

\* The name `impl PartialEq for Type` and `impl Display for Type` go by.
Type_name(ty) == IF ty.kind = "Primitive" THEN ty.repr ELSE ty.path

\* impl PartialEq for Type
Type_eq(a, b) == Type_name(a) = Type_name(b)

SymbolFunction(return_type) == [kind |-> "Function", return_type |-> return_type]
SymbolLocal(ty) == [kind |-> "Local", ty |-> ty]
SymbolType(ty) == [kind |-> "Type", ty |-> ty]

\* Resolver::new: the table holds the primitive types.
Resolver_new ==
    [table |-> SymbolTable_insert(
                   SymbolTable_insert(SymbolTable_new, "()", SymbolType(TypePrimitive("()"))),
                   "i32", SymbolType(TypePrimitive("i32"))),
     mode  |-> "Unset"]

\* .and_then(|symbol| match symbol { <kind>(v) => Some(v), _ => None })
AndThenKind(s, kind) ==
    IF IsSome(s) THEN (IF Unwrap(s).kind = kind THEN s ELSE None) ELSE None

\* The type a Type or Local symbol carries.
AndThenTy(s) == IF IsSome(s) THEN Some(Unwrap(s).ty) ELSE None

\* The return type of the Function found.
AndThenReturnType(s) == IF IsSome(s) THEN Some(Unwrap(s).return_type) ELSE None

\* Resolver::resolve_ty
Resolver_resolve_ty(table, ident) ==
    AndThenTy(AndThenKind(SymbolTable_find(table, ident), "Type"))

\* Resolver::resolve_local
Resolver_resolve_local(table, ident) ==
    AndThenTy(AndThenKind(SymbolTable_find(table, ident), "Local"))

\* Resolver::resolve_fn
Resolver_resolve_fn(table, ident) ==
    AndThenReturnType(AndThenKind(SymbolTable_find(table, ident), "Function"))

\* item_struct_fields: fields is the sequence of <<name, type name>> declared.
RECURSIVE item_struct_fields(_)
item_struct_fields(fields) ==
    IF fields = <<>> THEN EmptyMap
    ELSE MapInsert(item_struct_fields(SubSeq(fields, 1, Len(fields) - 1)),
                   fields[Len(fields)][1], fields[Len(fields)][2])

\* Visit for Resolver, visit_item_struct in mode Types
Resolver_visit_item_struct(table, item) ==
    SymbolTable_insert(table, item.ident,
                       SymbolType(TypeStruct(item.ident, item_struct_fields(item.fields))))

\* unwrap_or(Type::Primitive("()"))
UnwrapOrUnit(ty) == IF IsSome(ty) THEN Unwrap(ty) ELSE TypePrimitive("()")

\* Visit for Resolver, visit_item_fn in mode Functions
Resolver_visit_item_fn(table, item) ==
    SymbolTable_insert(table, item.ident,
                       SymbolFunction(UnwrapOrUnit(Resolver_resolve_ty(table, item.ty))))

\* visit_file in the given mode: the items in order; what the mode does not
\* collect is walked without effect.
RECURSIVE Resolver_visit_file(_, _, _)
Resolver_visit_file(table, items, mode) ==
    IF items = <<>> THEN table
    ELSE LET it == Head(items)
             t  == CASE it.kind = "Struct" /\ mode = "Types" ->
                           Resolver_visit_item_struct(table, it)
                      [] it.kind = "Fn" /\ mode = "Functions" ->
                           Resolver_visit_item_fn(table, it)
                      [] OTHER -> table
         IN Resolver_visit_file(t, Tail(items), mode)

(***************************************************************************)
(* sema/typeck.rs.  A TypeCkResult is Ok(ty), Err(error) or the panic of   *)
(* todo!().  An error keeps its kind (the reason's wording) and its span,  *)
(* given as <<item, statement>>, statement 0 standing for the function's   *)
(* return type.                                                            *)
(***************************************************************************)
Ok(ty) == [tag |-> "Ok", ty |-> ty]
Err(kind, at) == [tag |-> "Err", kind |-> kind, at |-> at]
Todo == [tag |-> "Panic"]

\* match <option> { Some(ty) => Ok(ty), None => Err(..) }
OkOrErr(ty, kind, at) == IF IsSome(ty) THEN Ok(Unwrap(ty)) ELSE Err(kind, at)

\* typeck_ident
typeck_ident(table, ident, at) ==
    OkOrErr(Resolver_resolve_local(table, ident.repr), "UndefinedName", at)

\* typeck_expr_call
typeck_expr_call(table, call, at) ==
    OkOrErr(Resolver_resolve_fn(table, call.ident), "UndefinedFunction", at)

\* typeck_expr_lit
typeck_expr_lit == Ok(TypePrimitive("i32"))

\* typeck_expr_bin once both operands are checked (each `?` returns the
\* operand's error).
typeck_expr_bin(lhs, rhs, at) ==
    IF lhs.tag /= "Ok" THEN lhs
    ELSE IF rhs.tag /= "Ok" THEN rhs
    ELSE IF Type_eq(lhs.ty, rhs.ty) THEN Ok(lhs.ty)
    ELSE Err("BinaryTypeMismatch", at)

\* typeck_expr
RECURSIVE typeck_expr(_, _, _)
typeck_expr(table, e, at) ==
    CASE e.kind = "Binary" ->
            typeck_expr_bin(typeck_expr(table, e.lhs, at), typeck_expr(table, e.rhs, at), at)
      [] e.kind = "Call" -> typeck_expr_call(table, e, at)
      [] e.kind = "Ident" -> typeck_ident(table, e, at)
      [] e.kind = "Lit" -> typeck_expr_lit

\* A check of a let that registers the variable whatever its declared type.
typeck_stmt_local_Unchecked(table, local, at, actual, expected) ==
    IF actual.tag /= "Ok" THEN [table |-> table, res |-> actual]
    ELSE IF expected = None THEN [table |-> table, res |-> Err("UnknownType", at)]
    ELSE [table |-> SymbolTable_insert(table, local.ident, SymbolLocal(actual.ty)),
          res   |-> IF Type_eq(Unwrap(expected), actual.ty)
                    THEN actual ELSE Err("LocalTypeMismatch", at)]

\* typeck_stmt, Stmt::Local, once the expression is checked and the declared
\* type resolved: the table after it and the result.
typeck_stmt_local(table, local, at, actual, expected) ==
    IF actual.tag /= "Ok" THEN [table |-> table, res |-> actual]
    ELSE IF expected = None THEN [table |-> table, res |-> Err("UnknownType", at)]
    ELSE IF Type_eq(Unwrap(expected), actual.ty)
    THEN [table |-> SymbolTable_insert(table, local.ident, SymbolLocal(actual.ty)),
          res   |-> actual]
    ELSE [table |-> table, res |-> Err("LocalTypeMismatch", at)]

\* typeck_stmt
typeck_stmt(table, stmt, at) ==
    CASE stmt.kind = "Local" ->
            typeck_stmt_local(table, stmt, at, typeck_expr(table, stmt.expr, at),
                              Resolver_resolve_ty(table, stmt.ty))
      [] stmt.kind = "Return" -> [table |-> table, res |-> typeck_expr(table, stmt.expr, at)]
      [] OTHER -> [table |-> table, res |-> Todo]

\* The last statement's second check, whose result is the block's.
typeck_block_last(again, seen) ==
    [table |-> again.table, res |-> again.res, checks |-> seen]

\* typeck_block from statement j on: the table after it, the result, and in
\* checks what the first check of every statement answered (the value that
\* `let _ =` drops).  typeck_block_stmt is one turn of the loop, first being
\* the first check of statement j.
RECURSIVE typeck_block(_, _, _, _, _)
RECURSIVE typeck_block_stmt(_, _, _, _, _)
typeck_block_stmt(first, stmts, item, j, checks) ==
    IF first.res.tag = "Panic"
    THEN [table |-> first.table, res |-> Todo, checks |-> Append(checks, first.res)]
    ELSE IF j = Len(stmts)
    THEN typeck_block_last(typeck_stmt(first.table, stmts[j], <<item, j>>),
                           Append(checks, first.res))
    ELSE typeck_block(first.table, stmts, item, j + 1, Append(checks, first.res))

typeck_block(table, stmts, item, j, checks) ==
    IF j > Len(stmts)
    THEN [table |-> table, res |-> Ok(TypePrimitive("()")), checks |-> checks]
    ELSE typeck_block_stmt(typeck_stmt(table, stmts[j], <<item, j>>), stmts, item, j, checks)

\* visit_item_fn: what self.result is after a function whose check came out
\* as outcome (an Err is stored, anything else leaves the result alone).
TypeCk_store(result, outcome) ==
    IF outcome.tag = "Err" THEN outcome ELSE result

\* visit_item_fn once the return type is resolved and, for a known return
\* type, the block checked: the table after it, the outcome of the function
\* (Ok standing for "nothing stored"), and the statement checks.
TypeCk_item_fn_outcome(table, expected, block, i) ==
    IF expected = None
    THEN [table |-> table, res |-> Err("UnknownType", <<i, 0>>), checks |-> <<>>]
    ELSE IF block.res.tag /= "Ok" THEN block
    ELSE IF ~Type_eq(Unwrap(expected), block.res.ty)
    THEN [block EXCEPT !.res = Err("ReturnTypeMismatch", <<i, 0>>)]
    ELSE block

\* Visit for TypeCk, visit_item_fn
TypeCk_visit_item_fn(table, item, i) ==
    TypeCk_item_fn_outcome(table, Resolver_resolve_ty(table, item.ty),
                           typeck_block(table, item.body, i, 1, <<>>), i)

(***************************************************************************)
(* The resolver passes and the type check, as main runs them.              *)
(***************************************************************************)
TypeckInit ==
    /\ resolver = Resolver_new
    /\ tc_result = Ok(TypePrimitive("()"))
    /\ tc_pc = [phase |-> "collect_tys", item |-> 1]
    /\ tc_log = <<>>

TypeckIdle == UNCHANGED <<resolver, tc_result, tc_pc, tc_log>>

\* Resolver::collect_tys
ResolverCollectTys ==
    /\ tc_pc.phase = "collect_tys"
    /\ resolver' = [table |-> Resolver_visit_file(resolver.table, ast, "Types"),
                    mode  |-> "Types"]
    /\ tc_pc' = [tc_pc EXCEPT !.phase = "collect_functions"]
    /\ UNCHANGED <<ast, tc_result, tc_log>>

\* Resolver::collect_functions
ResolverCollectFunctions ==
    /\ tc_pc.phase = "collect_functions"
    /\ resolver' = [table |-> Resolver_visit_file(resolver.table, ast, "Functions"),
                    mode  |-> "Functions"]
    /\ tc_pc' = [tc_pc EXCEPT !.phase = "typeck"]
    /\ UNCHANGED <<ast, tc_result, tc_log>>

TypeckAtItem ==
    /\ tc_pc.phase = "typeck"
    /\ tc_pc.item <= Len(ast)

\* TypeCk's visit_item_fn on the next item.
TypeckItemFn ==
    /\ TypeckAtItem
    /\ ast[tc_pc.item].kind = "Fn"
    /\ \E r \in {TypeCk_visit_item_fn(resolver.table, ast[tc_pc.item], tc_pc.item)} :
          /\ resolver' = [resolver EXCEPT !.table = r.table]
          /\ tc_result' = TypeCk_store(tc_result, r.res)
          /\ tc_log' = Append(tc_log, [item |-> tc_pc.item, res |-> r.res,
                                       checks |-> r.checks])
          /\ tc_pc' = IF r.res.tag = "Panic"
                      THEN [tc_pc EXCEPT !.phase = "panic"]
                      ELSE [tc_pc EXCEPT !.item = @ + 1]
    /\ UNCHANGED ast

\* A struct or impl item: TypeCk overrides nothing the default walk reaches.
TypeckItemOther ==
    /\ TypeckAtItem
    /\ ast[tc_pc.item].kind /= "Fn"
    /\ tc_pc' = [tc_pc EXCEPT !.item = @ + 1]
    /\ UNCHANGED <<ast, resolver, tc_result, tc_log>>

\* TypeCk::run returns self.result.
TypeckReturn ==
    /\ tc_pc.phase = "typeck"
    /\ tc_pc.item > Len(ast)
    /\ tc_pc' = [tc_pc EXCEPT !.phase = "done"]
    /\ UNCHANGED <<ast, resolver, tc_result, tc_log>>

(***************************************************************************)
(* The files lowered.                                                      *)
(***************************************************************************)
\* The statements of the files with several items.
PlainStmts ==
    {Local("x", "i32", Lit(1)),
     Local("x", "()", Lit(1)),
     Return(Ident("x")),
     Return(CallFn("f", <<>>)),
     Return(CallFn("main", <<>>)),
     Return(Binary(Lit(1), "Add", CallFn("f", <<>>)))}

\* The expressions and statements of the files with one function.
RichExprs ==
    {Lit(1),
     Ident("x"),
     Binary(Lit(1), "Add", Lit(2)),
     Binary(Ident("x"), "Multiply", Lit(1)),
     CallFn("f", <<Lit(1), Ident("x")>>),
     CallFn("f", <<CallFn("f", <<Lit(2)>>), Lit(1)>>)}

RichStmts ==
    {Local("x", "i32", e) : e \in RichExprs}
        \cup {ExprStmt(e) : e \in RichExprs}
        \cup {Return(e) : e \in RichExprs}

SeqsOf(S, k) == [1..k -> S]

TheStruct == ItemStruct("S", <<>>)
TheImpl == ItemImpl("S", <<<<Local("x", "i32", Lit(1))>>>>)

\* The items whose function body has exactly k statements.
ItemsWith(k) ==
    {ItemFn("main", 0, "i32", b) : b \in SeqsOf(PlainStmts, k)}
        \cup {ItemFn("f", 0, "()", b) : b \in SeqsOf(PlainStmts, k)}
        \cup (IF k = 0 THEN {TheStruct, TheImpl} ELSE {})

\* The files of size exactly size, the size of a file being the number of
\* its items and of the statements of its function bodies.
RECURSIVE FilesOf(_)
FilesOf(size) ==
    IF size = 0 THEN {<<>>}
    ELSE UNION {{<<it>> \o rest : it \in ItemsWith(k), rest \in FilesOf(size - 1 - k)}
                   : k \in 0..(size - 1)}

PlainFiles == UNION {FilesOf(size) : size \in 0..MaxFileSize}

RichFiles ==
    UNION {{<<ItemFn("f", 0, "i32", b)>> : b \in SeqsOf(RichStmts, k)} : k \in 1..MaxBodyStmts}

LowerFiles == PlainFiles \cup RichFiles

\* The statements of the files checked for their types only: calls of the
\* declared f and of an undeclared g with zero, one and two arguments, lets
\* whose name is the function's or a type's, or whose type is a struct's.
TypedStmts ==
    {Local("f", "()", CallFn("f", <<>>)),
     Local("x", "i32", CallFn("f", <<Lit(1)>>)),
     Local("x", "S", Lit(1)),
     Local("i32", "i32", Lit(1)),
     Return(CallFn("f", <<>>)),
     Return(CallFn("f", <<Ident("y")>>)),
     Return(CallFn("f", <<Lit(1), Lit(2)>>)),
     Return(CallFn("g", <<Lit(1)>>)),
     Return(Binary(Lit(1), "Add", Lit(2))),
     Return(Lit(1))}

\* One function f of each return type, alone or followed by the struct S.
TypedFns ==
    UNION {{ItemFn("f", 0, ty, b) : ty \in {"()", "i32", "S"}, b \in SeqsOf(TypedStmts, k)}
              : k \in 0..MaxBodyStmts}

TypedFiles == {<<fn>> : fn \in TypedFns} \cup {<<fn, TheStruct>> : fn \in TypedFns}

\* The files of declarations: functions of empty body, one of them named as
\* the struct, two of them of one name.
DeclItems ==
    {ItemFn("g", 0, "S", <<>>),
     ItemFn("g", 0, "i32", <<>>),
     ItemFn("S", 0, "i32", <<>>),
     TheStruct}

DeclFiles == UNION {SeqsOf(DeclItems, k) : k \in 1..MaxDecls}

TypeckFiles == PlainFiles \cup TypedFiles \cup DeclFiles

(***************************************************************************)
(* sema/basic.rs, sema/check_main.rs, sema/mod.rs                          *)
(***************************************************************************)
\* SemaError { reason, span }: the reason by its kind and the count it prints.
SemaError(reason, count) == [reason |-> reason, count |-> count]

\* Basic::new
Basic_new == [main |-> None, params |-> 0]

\* Visit for Basic, visit_item_fn: a function named main is recorded over
\* whatever was recorded before; any other function is walked by default.
Basic_visit_item_fn(b, item) ==
    IF item.ident = "main"
    THEN [b EXCEPT !.main = Some(item.ident), !.params = item.params]
    ELSE b

\* visit_file: the items in order from the i-th on; only Item::Fn reaches
\* visit_item_fn, the functions of an impl are ImplItemFn.
RECURSIVE Basic_visit_file(_, _, _)
Basic_visit_file(b, items, i) ==
    IF i > Len(items) THEN b
    ELSE Basic_visit_file(IF items[i].kind = "Fn"
                          THEN Basic_visit_item_fn(b, items[i])
                          ELSE b,
                          items, i + 1)

\* The match of Analysis::run over the fields the visit left: the error
\* returned, None for Ok(()).
Basic_match(b) ==
    IF IsSome(b.main) /\ b.params = 1 THEN Some(SemaError("MainTakesOneArgument", 1))
    ELSE IF IsSome(b.main) /\ b.params > 1
         THEN Some(SemaError("MainTakesArguments", b.params))
    ELSE IF ~IsSome(b.main) THEN Some(SemaError("NoMain", 0))
    ELSE None

\* SemaEngine::run from the i-th analysis on: every analysis runs, in the
\* order of registration, and each error is pushed. An entry of errors holds
\* beside the error the position of the analysis that returned it.
\* Analysis::run of Basic: the error returned, None for Ok(()).
Basic_run(b, items) == Basic_match(Basic_visit_file(b, items, 1))

\* errors.push(error) of SemaEngine::run; beside the error an entry holds the
\* position of the analysis that returned it.
PushError(errors, error, i) ==
    IF IsSome(error) THEN Append(errors, [error |-> Unwrap(error), by |-> i])
    ELSE errors

\* SemaEngine::run from the i-th analysis on: every analysis runs, in the
\* order of registration, and each error is pushed.
RECURSIVE SemaEngine_run(_, _, _, _)
SemaEngine_run(analyses, items, i, errors) ==
    IF i > Len(analyses)
    THEN [analyses |-> analyses,
          result |-> IF errors = <<>> THEN [tag |-> "Ok"]
                     ELSE [tag |-> "Err", errors |-> errors]]
    ELSE SemaEngine_run([analyses EXCEPT ![i] = Basic_visit_file(analyses[i], items, 1)],
                        items, i + 1,
                        PushError(errors, Basic_run(analyses[i], items), i))

\* SemaEngine::new: no analysis registered.
SemaInit ==
    /\ sema = <<>>
    /\ sema_result = None

SemaIdle == UNCHANGED <<sema, sema_result>>

\* SemaEngine::register
SemaRegister ==
    /\ sema_result = None
    /\ Len(sema) < MaxAnalyses
    /\ sema' = Append(sema, Basic_new)
    /\ UNCHANGED sema_result

\* SemaEngine::run over the file
SemaRun ==
    /\ sema_result = None
    /\ \E r \in {SemaEngine_run(sema, ast, 1, <<>>)} :
          /\ sema' = r.analyses
          /\ sema_result' = Some(r.result)

(***************************************************************************)
(* asm/register.rs                                                         *)
(***************************************************************************)
RegIndices == 0..(NumRegs - 1)

\* is_free
RegMgr_is_free(r, index) == r.registers[index]

\* get_free: self.free.pop()
RegMgr_get_free(r) ==
    IF r.free = <<>> THEN [mgr |-> r, result |-> None]
    ELSE [mgr |-> [r EXCEPT !.free = SubSeq(r.free, 1, Len(r.free) - 1)],
          result |-> Some(r.free[Len(r.free)])]

\* set_free
RegMgr_set_free(r, index) ==
    IF ~r.registers[index]
    THEN [registers |-> [r.registers EXCEPT ![index] = TRUE],
          free |-> Append(r.free, index)]
    ELSE r

\* set_used
RegMgr_set_used(r, index) ==
    [registers |-> [r.registers EXCEPT ![index] = FALSE],
     free |-> SelectSeq(r.free, LAMBDA i : i /= index)]

\* The struct has no constructor; a manager starts with its two fields in
\* agreement: the free list holds, once each and in any order, the registers
\* whose flag is set.
RegMgrStates ==
    {r \in [registers : [RegIndices -> BOOLEAN],
            free : UNION {[1..k -> RegIndices] : k \in 0..NumRegs}] :
        /\ \A i, j \in DOMAIN r.free : r.free[i] = r.free[j] => i = j
        /\ {r.free[i] : i \in DOMAIN r.free} = {i \in RegIndices : r.registers[i]}}

\* A manager nobody uses: every register free.
RegInit ==
    /\ regs = [registers |-> [i \in RegIndices |-> TRUE],
               free |-> [k \in 1..NumRegs |-> k - 1]]
    /\ reg_hist = <<>>

RegIdle == UNCHANGED <<regs, reg_hist>>

RegGetFree ==
    /\ Len(reg_hist) < MaxRegOps
    /\ \E r \in {RegMgr_get_free(regs)} :
          /\ regs' = r.mgr
          /\ reg_hist' = Append(reg_hist, [op |-> "get_free", result |-> r.result])

RegSetFree(index) ==
    /\ Len(reg_hist) < MaxRegOps
    /\ regs' = RegMgr_set_free(regs, index)
    /\ reg_hist' = Append(reg_hist, [op |-> "set_free", result |-> Some(index)])

RegSetUsed(index) ==
    /\ Len(reg_hist) < MaxRegOps
    /\ regs' = RegMgr_set_used(regs, index)
    /\ reg_hist' = Append(reg_hist, [op |-> "set_used", result |-> Some(index)])

\* The files checked by the analyses: functions named main with zero, one
\* and two parameters, a function of another name, a struct.
SemaItems ==
    {ItemFn("main", 0, "i32", <<>>),
     ItemFn("main", 1, "i32", <<>>),
     ItemFn("main", 2, "i32", <<>>),
     ItemFn("f", 1, "i32", <<>>),
     TheStruct}

SemaFiles == UNION {SeqsOf(SemaItems, k) : k \in 0..MaxDecls}

(***************************************************************************)
(* Specifications.                                                         *)
(***************************************************************************)
NoFile == ast = <<>>
FileIdle == UNCHANGED ast

InitPool == PoolInit /\ MapperInit /\ NoFile /\ LowerInit /\ TypeckInit /\ InstrInit /\ SemaInit /\ RegInit
NextPool ==
    \E v \in PoolValues :
        PoolInsert(v) /\ MapperIdle /\ FileIdle /\ LowerIdle /\ TypeckIdle /\ InstrIdle /\ SemaIdle /\ RegIdle
SpecPool == InitPool /\ [][NextPool]_vars

InitMapper == PoolInit /\ MapperInit /\ NoFile /\ LowerInit /\ TypeckInit /\ InstrInit /\ SemaInit /\ RegInit
NextMapper ==
    \/ \E name \in MapperNames :
          MapperInsert(name) /\ PoolIdle /\ FileIdle /\ LowerIdle /\ TypeckIdle /\ InstrIdle /\ SemaIdle /\ RegIdle
    \/ MapperUp /\ PoolIdle /\ FileIdle /\ LowerIdle /\ TypeckIdle /\ InstrIdle /\ SemaIdle /\ RegIdle
    \/ MapperDown /\ PoolIdle /\ FileIdle /\ LowerIdle /\ TypeckIdle /\ InstrIdle /\ SemaIdle /\ RegIdle
SpecMapper == InitMapper /\ [][NextMapper]_vars

InitLower == PoolInit /\ MapperInit /\ ast \in LowerFiles /\ LowerInit /\ TypeckInit /\ InstrInit /\ SemaInit /\ RegInit
NextLower ==
    \/ LowerEnterFn /\ PoolIdle /\ MapperIdle /\ TypeckIdle /\ InstrIdle /\ SemaIdle /\ RegIdle
    \/ LowerStmt /\ PoolIdle /\ MapperIdle /\ TypeckIdle /\ InstrIdle /\ SemaIdle /\ RegIdle
    \/ LowerExitFn /\ PoolIdle /\ MapperIdle /\ TypeckIdle /\ InstrIdle /\ SemaIdle /\ RegIdle
    \/ LowerItemStruct /\ PoolIdle /\ MapperIdle /\ TypeckIdle /\ InstrIdle /\ SemaIdle /\ RegIdle
    \/ LowerItemImpl /\ PoolIdle /\ MapperIdle /\ TypeckIdle /\ InstrIdle /\ SemaIdle /\ RegIdle
    \/ LowerFinish /\ PoolIdle /\ MapperIdle /\ TypeckIdle /\ InstrIdle /\ SemaIdle /\ RegIdle
SpecLower == InitLower /\ [][NextLower]_vars

InitTypeck == PoolInit /\ MapperInit /\ ast \in TypeckFiles /\ LowerInit /\ TypeckInit /\ InstrInit /\ SemaInit /\ RegInit
NextTypeck ==
    \/ ResolverCollectTys /\ PoolIdle /\ MapperIdle /\ LowerIdle /\ InstrIdle /\ SemaIdle /\ RegIdle
    \/ ResolverCollectFunctions /\ PoolIdle /\ MapperIdle /\ LowerIdle /\ InstrIdle /\ SemaIdle /\ RegIdle
    \/ TypeckItemFn /\ PoolIdle /\ MapperIdle /\ LowerIdle /\ InstrIdle /\ SemaIdle /\ RegIdle
    \/ TypeckItemOther /\ PoolIdle /\ MapperIdle /\ LowerIdle /\ InstrIdle /\ SemaIdle /\ RegIdle
    \/ TypeckReturn /\ PoolIdle /\ MapperIdle /\ LowerIdle /\ InstrIdle /\ SemaIdle /\ RegIdle
SpecTypeck == InitTypeck /\ [][NextTypeck]_vars

InitInstr == PoolInit /\ MapperInit /\ NoFile /\ LowerInit /\ TypeckInit /\ InstrInit /\ SemaInit /\ RegInit
NextInstr ==
    \/ InstrMakeBinary /\ PoolIdle /\ MapperIdle /\ FileIdle /\ LowerIdle /\ TypeckIdle /\ SemaIdle /\ RegIdle
    \/ InstrMakeCopy /\ PoolIdle /\ MapperIdle /\ FileIdle /\ LowerIdle /\ TypeckIdle /\ SemaIdle /\ RegIdle
    \/ InstrMakeCall /\ PoolIdle /\ MapperIdle /\ FileIdle /\ LowerIdle /\ TypeckIdle /\ SemaIdle /\ RegIdle
    \/ InstrHumanReadable /\ PoolIdle /\ MapperIdle /\ FileIdle /\ LowerIdle /\ TypeckIdle /\ SemaIdle /\ RegIdle
SpecInstr == InitInstr /\ [][NextInstr]_vars

\* The Mapper driven on its own, or held by a LoweringEngine over a file.
InitScopes ==
    /\ PoolInit /\ LowerInit /\ TypeckInit /\ InstrInit /\ SemaInit /\ RegInit
    /\ \/ MapperInit /\ NoFile
       \/ mapper = Mapper_new /\ m_status = "unused" /\ m_hist = <<>> /\ ast \in LowerFiles
NextScopes ==
    \/ \E name \in MapperNames :
          MapperInsert(name) /\ PoolIdle /\ FileIdle /\ LowerIdle /\ TypeckIdle /\ InstrIdle /\ SemaIdle /\ RegIdle
    \/ MapperUp /\ PoolIdle /\ FileIdle /\ LowerIdle /\ TypeckIdle /\ InstrIdle /\ SemaIdle /\ RegIdle
    \/ MapperDown /\ PoolIdle /\ FileIdle /\ LowerIdle /\ TypeckIdle /\ InstrIdle /\ SemaIdle /\ RegIdle
    \/ LowerEnterFn /\ PoolIdle /\ MapperIdle /\ TypeckIdle /\ InstrIdle /\ SemaIdle /\ RegIdle
    \/ LowerStmt /\ PoolIdle /\ MapperIdle /\ TypeckIdle /\ InstrIdle /\ SemaIdle /\ RegIdle
    \/ LowerExitFn /\ PoolIdle /\ MapperIdle /\ TypeckIdle /\ InstrIdle /\ SemaIdle /\ RegIdle
    \/ LowerItemStruct /\ PoolIdle /\ MapperIdle /\ TypeckIdle /\ InstrIdle /\ SemaIdle /\ RegIdle
    \/ LowerItemImpl /\ PoolIdle /\ MapperIdle /\ TypeckIdle /\ InstrIdle /\ SemaIdle /\ RegIdle
    \/ LowerFinish /\ PoolIdle /\ MapperIdle /\ TypeckIdle /\ InstrIdle /\ SemaIdle /\ RegIdle
SpecScopes == InitScopes /\ [][NextScopes]_vars

\* The file checked by the Resolver passes and TypeCk.run and, when run
\* returned Ok, lowered.
TypeckPassed == tc_pc.phase = "done" /\ tc_result.tag = "Ok"
InitPipeline == InitTypeck
NextPipeline ==
    \/ ResolverCollectTys /\ PoolIdle /\ MapperIdle /\ LowerIdle /\ InstrIdle /\ SemaIdle /\ RegIdle
    \/ ResolverCollectFunctions /\ PoolIdle /\ MapperIdle /\ LowerIdle /\ InstrIdle /\ SemaIdle /\ RegIdle
    \/ TypeckItemFn /\ PoolIdle /\ MapperIdle /\ LowerIdle /\ InstrIdle /\ SemaIdle /\ RegIdle
    \/ TypeckItemOther /\ PoolIdle /\ MapperIdle /\ LowerIdle /\ InstrIdle /\ SemaIdle /\ RegIdle
    \/ TypeckReturn /\ PoolIdle /\ MapperIdle /\ LowerIdle /\ InstrIdle /\ SemaIdle /\ RegIdle
    \/ TypeckPassed /\ LowerEnterFn /\ PoolIdle /\ MapperIdle /\ TypeckIdle /\ InstrIdle /\ SemaIdle /\ RegIdle
    \/ TypeckPassed /\ LowerStmt /\ PoolIdle /\ MapperIdle /\ TypeckIdle /\ InstrIdle /\ SemaIdle /\ RegIdle
    \/ TypeckPassed /\ LowerExitFn /\ PoolIdle /\ MapperIdle /\ TypeckIdle /\ InstrIdle /\ SemaIdle /\ RegIdle
    \/ TypeckPassed /\ LowerItemStruct /\ PoolIdle /\ MapperIdle /\ TypeckIdle /\ InstrIdle /\ SemaIdle /\ RegIdle
    \/ TypeckPassed /\ LowerItemImpl /\ PoolIdle /\ MapperIdle /\ TypeckIdle /\ InstrIdle /\ SemaIdle /\ RegIdle
    \/ TypeckPassed /\ LowerFinish /\ PoolIdle /\ MapperIdle /\ TypeckIdle /\ InstrIdle /\ SemaIdle /\ RegIdle
SpecPipeline == InitPipeline /\ [][NextPipeline]_vars

InitSema ==
    /\ PoolInit /\ MapperInit /\ LowerInit /\ TypeckInit /\ InstrInit /\ RegInit
    /\ SemaInit /\ ast \in SemaFiles
NextSema ==
    \/ SemaRegister /\ PoolIdle /\ MapperIdle /\ FileIdle /\ LowerIdle /\ TypeckIdle /\ InstrIdle /\ RegIdle
    \/ SemaRun /\ PoolIdle /\ MapperIdle /\ FileIdle /\ LowerIdle /\ TypeckIdle /\ InstrIdle /\ RegIdle
SpecSema == InitSema /\ [][NextSema]_vars

InitRegMgr ==
    /\ PoolInit /\ MapperInit /\ NoFile /\ LowerInit /\ TypeckInit /\ InstrInit /\ SemaInit
    /\ regs \in RegMgrStates /\ reg_hist = <<>>
NextRegMgr ==
    \/ RegGetFree /\ PoolIdle /\ MapperIdle /\ FileIdle /\ LowerIdle /\ TypeckIdle /\ InstrIdle /\ SemaIdle
    \/ \E index \in RegIndices :
          RegSetFree(index) /\ PoolIdle /\ MapperIdle /\ FileIdle /\ LowerIdle /\ TypeckIdle /\ InstrIdle /\ SemaIdle
    \/ \E index \in RegIndices :
          RegSetUsed(index) /\ PoolIdle /\ MapperIdle /\ FileIdle /\ LowerIdle /\ TypeckIdle /\ InstrIdle /\ SemaIdle
SpecRegMgr == InitRegMgr /\ [][NextRegMgr]_vars

(***************************************************************************)
(* Claims about the Pool.                                                  *)
(***************************************************************************)
PoolInserted == {pool_hist[i][1] : i \in DOMAIN pool_hist}

\* C6: after any sequence of Pool.insert calls the pool is a bijection between
\* the distinct inserted values and the indices 0..n-1: two inserts return the
\* same index iff their values are equal (so an index once returned for a value
\* is returned for it on every later insert), value_of(index_of(v)) = v for
\* every inserted v, and value_of(i) is None for every i >= n.
C6_PoolBijection ==
    LET n == Cardinality(PoolInserted) IN
    /\ \A i, j \in DOMAIN pool_hist :
          (pool_hist[i][2] = pool_hist[j][2]) <=> (pool_hist[i][1] = pool_hist[j][1])
    /\ {pool_hist[i][2] : i \in DOMAIN pool_hist} = 0..(n - 1)
    /\ \A i \in DOMAIN pool_hist :
          /\ Pool_index_of(pool, pool_hist[i][1]) = Some(pool_hist[i][2])
          /\ Pool_value_of(pool, pool_hist[i][2]) = Some(pool_hist[i][1])
    /\ \A v \in PoolInserted :
          Pool_value_of(pool, Unwrap(Pool_index_of(pool, v))) = Some(v)
    /\ \A v \in PoolValues \ PoolInserted : Pool_index_of(pool, v) = None
    /\ \A i \in n..(n + MaxPoolInserts) : Pool_value_of(pool, i) = None

\* A value inserted twice with another value inserted in between.
C6_Witness ==
    \E i, j, k \in DOMAIN pool_hist :
        /\ i < j /\ j < k
        /\ pool_hist[i][1] = pool_hist[k][1]
        /\ pool_hist[i][1] /= pool_hist[j][1]
        /\ pool_hist[k][2] = pool_hist[i][2]

(***************************************************************************)
(* Claims about the Mapper.  The reference is an explicit stack of frames  *)
(* replayed from the history of operations.                                *)
(***************************************************************************)
RECURSIVE RefScopes(_)
RefScopes(h) ==
    IF h = <<>> THEN <<EmptyMap>>
    ELSE LET s == RefScopes(SubSeq(h, 1, Len(h) - 1))
             e == h[Len(h)]
         IN CASE e.op = "insert" -> [s EXCEPT ![Len(s)] = MapInsert(@, e.name, e.ret)]
              [] e.op = "up"     -> Append(s, EmptyMap)
              [] e.op = "down"   -> SubSeq(s, 1, Len(s) - 1)
              [] OTHER           -> s

RefFind(s, n) ==
    LET hits == {d \in DOMAIN s : n \in DOMAIN s[d]}
    IN IF hits = {} THEN None
       ELSE Some(s[CHOOSE d \in hits : \A d2 \in hits : d2 <= d][n])

\* C7: after any sequence of up, insert and down, find(name) is the binding of
\* name made in the innermost live scope that binds it (the latest one of that
\* scope), and there is no match iff no live scope binds the name.
C7_FindInnermost ==
    \A n \in MapperNames : Mapper_find(mapper, n) = RefFind(RefScopes(m_hist), n)

\* Three live scopes: x bound in the outermost and again in the innermost, y
\* bound in the outermost only.
C7_Witness ==
    LET s == RefScopes(m_hist) IN
    /\ m_status = "ok"
    /\ Len(s) = 3
    /\ "x" \in DOMAIN s[1] /\ "x" \in DOMAIN s[3] /\ "y" \in DOMAIN s[1]
    /\ "y" \notin DOMAIN s[2] /\ "y" \notin DOMAIN s[3]
    /\ Mapper_find(mapper, "x") = Some(s[3]["x"])
    /\ Mapper_find(mapper, "y") = Some(s[1]["y"])

\* Scope depth after the first k operations of the history.
HistDepth(k) ==
    1 + Cardinality({i \in 1..k : m_hist[i].op = "up"})
      - Cardinality({i \in 1..k : m_hist[i].op = "down"})

\* What find answered after the first k operations.
HistFinds(k) == IF k = 0 THEN MapperFinds(Mapper_new) ELSE m_hist[k].finds

\* The push that the pop at position j matches.
MatchingUp(j) ==
    CHOOSE i \in 1..j : /\ m_hist[i].op = "up"
                        /\ HistDepth(i - 1) = HistDepth(j)
                        /\ \A i2 \in (i + 1)..j :
                              ~(m_hist[i2].op = "up" /\ HistDepth(i2 - 1) = HistDepth(j))

\* C8: a pop restores exactly the bindings visible before the matching push.
C8_PopRestores ==
    \A j \in DOMAIN m_hist :
        m_hist[j].op = "down" => HistFinds(j) = HistFinds(MatchingUp(j) - 1)

\* insert x; up; insert x; insert y; down: the inner x and y disappear and the
\* outer x reappears.
C8_Witness ==
    \E j \in DOMAIN m_hist :
        /\ m_hist[j].op = "down"
        /\ IsSome(HistFinds(MatchingUp(j) - 1)["x"])
        /\ HistFinds(j - 1)["x"] /= HistFinds(j)["x"]
        /\ IsSome(HistFinds(j - 1)["y"])
        /\ HistFinds(j)["y"] = None

MapperInserts == SelectSeq(m_hist, LAMBDA e : e.op = "insert")

\* C9: the k-th insert on a Mapper returns k-1, whatever is bound and whatever
\* scopes were pushed or popped in between.
C9_InsertFresh ==
    \A k \in DOMAIN MapperInserts : MapperInserts[k].ret = k - 1

\* A name inserted, its scope popped, and the same name inserted again; and a
\* name inserted while an enclosing scope binds it.
C9_Witness ==
    \E i, j, k \in DOMAIN m_hist :
        /\ i < j /\ j < k
        /\ m_hist[i].op = "insert" /\ m_hist[j].op = "down" /\ m_hist[k].op = "insert"
        /\ m_hist[i].name = m_hist[k].name
        /\ HistDepth(i) > HistDepth(j)
        /\ IsSome(HistFinds(k - 1)[m_hist[k].name])
        /\ m_hist[k].ret > m_hist[i].ret

(***************************************************************************)
(* Claims about the LoweringEngine.                                        *)
(***************************************************************************)
\* The positions (0-based) of the instructions that carry a label.
Carriers(label) ==
    {p - 1 : p \in {q \in DOMAIN le.instrs : le.instrs[q].label = Some(label)}}

\* C1: once visit_item_fn is through with a function item, exactly one
\* instruction carries that function's label, and it is the one at the position
\* recorded when the body was entered; also for a body with no statements.
C1_OneLabelPerFunction ==
    \A k \in DOMAIN le_fns :
        le_fns[k].ended => Carriers(le_fns[k].label) = {le_fns[k].index}

\* The same for the functions whose body has at least one statement.
C1_OneLabelPerNonEmptyFunction ==
    \A k \in DOMAIN le_fns :
        (le_fns[k].ended /\ ast[le_fns[k].item].body /= <<>>)
            => Carriers(le_fns[k].label) = {le_fns[k].index}

DeclaredFns == {ast[i].ident : i \in {j \in DOMAIN ast : ast[j].kind = "Fn"}}

\* The labels carried by the first instruction of a function named f.
EntryLabels(f) ==
    {le_fns[k].label : k \in {j \in DOMAIN le_fns :
                                 /\ le_fns[j].ident = f
                                 /\ le_fns[j].index \in Carriers(le_fns[j].label)}}

\* C2: a call to a function declared anywhere in the file (earlier, later, or
\* the caller itself) is lowered: the function mapper binds the callee when the
\* call is reached, and in the finished sequence the Call's label is the label
\* on the callee's first instruction.
C2_CallsToDeclaredFnsLower ==
    /\ le.panic = "UnresolvedFn" => le.panic_at \notin DeclaredFns
    /\ le_pc.phase = "done" =>
          \A c \in DOMAIN le.calls :
              le.calls[c].ident \in DeclaredFns
                  => InstrAt(le, le.calls[c].i).fl \in EntryLabels(le.calls[c].ident)

\* C10: in every state of a lowering every Binary, Copy and Call instruction
\* of the sequence has a Name or Temp destination, never a Const.
C10_NoConstDestination ==
    \A p \in DOMAIN le.instrs :
        le.instrs[p].kind \in {"Binary", "Copy", "Call"}
            => le.instrs[p].da.kind \in {"Name", "Temp"}

\* A sequence with a Binary, a Call, a Copy into a Name and a Copy from a Const.
C10_Witness ==
    /\ \E p \in DOMAIN le.instrs : le.instrs[p].kind = "Binary"
    /\ \E p \in DOMAIN le.instrs : le.instrs[p].kind = "Call"
    /\ \E p \in DOMAIN le.instrs :
          le.instrs[p].kind = "Copy" /\ le.instrs[p].da.kind = "Name"
    /\ \E p \in DOMAIN le.instrs :
          le.instrs[p].kind = "Copy" /\ le.instrs[p].ad.kind = "Const"

(***************************************************************************)
(* Claims about the type check.  tc_log holds, per function item checked,  *)
(* the outcome of the function and what the first check of each of its     *)
(* statements answered.                                                    *)
(***************************************************************************)
TypeckDone == tc_pc.phase = "done"

\* C3: if any statement of a function body, the last or an earlier one, has a
\* type error, TypeCk.run returns an error.
C3_StatementErrorsReturned ==
    TypeckDone =>
        ((\E k \in DOMAIN tc_log : \E j \in DOMAIN tc_log[k].checks :
              tc_log[k].checks[j].tag = "Err")
            => tc_result.tag = "Err")

\* Statement j of the body logged as k is a let of name whose check succeeded.
LetChecked(k, j, name) ==
    /\ ast[tc_log[k].item].body[j].kind = "Local"
    /\ ast[tc_log[k].item].body[j].ident = name
    /\ tc_log[k].checks[j].tag = "Ok"

\* C4: a returned identifier checks to UndefinedName unless a let of that name
\* earlier in the same function body checked successfully; a local of an
\* earlier function does not count.
C4_LocalsAreFunctionScoped ==
    \A k \in DOMAIN tc_log : \A j \in DOMAIN tc_log[k].checks :
        (/\ ast[tc_log[k].item].body[j].kind = "Return"
         /\ ast[tc_log[k].item].body[j].expr.kind = "Ident"
         /\ ~\E h \in 1..(j - 1) :
                LetChecked(k, h, ast[tc_log[k].item].body[j].expr.repr))
            => /\ tc_log[k].checks[j].tag = "Err"
               /\ tc_log[k].checks[j].kind = "UndefinedName"

\* The entries of tc_log whose function came out with an error.
Failed == {k \in DOMAIN tc_log : tc_log[k].res.tag = "Err"}

\* C5: when functions of the file fail, TypeCk.run returns the error of the
\* first of them in traversal order.
C5_FirstErrorReturned ==
    (TypeckDone /\ Failed /= {})
        => tc_result = tc_log[CHOOSE k \in Failed : \A h \in Failed : k <= h].res

(***************************************************************************)
(* The runs in which the code leaves what C1..C5 state.                    *)
(***************************************************************************)
\* fn main() -> i32 {} : visit_item_fn finds no instruction at the recorded
\* position to label.
C1_Witness ==
    /\ ast = <<ItemFn("main", 0, "i32", <<>>)>>
    /\ le.panic = "NoInstruction"
    /\ Carriers(le_fns[1].label) = {}

\* fn main() -> i32 { return f(); }  fn f() -> () { let x: i32 = 1; } :
\* the function mapper does not bind f when the call is reached.
C2_Witness ==
    /\ ast = <<ItemFn("main", 0, "i32", <<Return(CallFn("f", <<>>))>>),
               ItemFn("f", 0, "()", <<Local("x", "i32", Lit(1))>>)>>
    /\ le.panic = "UnresolvedFn"
    /\ le.panic_at = "f"

\* fn main() -> i32 { let x: () = 1; let x: i32 = 1; } : the first let is a
\* mismatch and run returns Ok.
C3_Witness ==
    /\ ast = <<ItemFn("main", 0, "i32",
                      <<Local("x", "()", Lit(1)), Local("x", "i32", Lit(1))>>)>>
    /\ TypeckDone
    /\ tc_log[1].checks[1] = Err("LocalTypeMismatch", <<1, 1>>)
    /\ tc_result.tag = "Ok"

\* fn main() -> i32 { let x: i32 = 1; }  fn f() -> () { return x; } :
\* the x returned by f checks to the i32 of main's local.
C4_Witness ==
    /\ ast = <<ItemFn("main", 0, "i32", <<Local("x", "i32", Lit(1))>>),
               ItemFn("f", 0, "()", <<Return(Ident("x"))>>)>>
    /\ TypeckDone
    /\ tc_log[2].checks[1] = Ok(TypePrimitive("i32"))

\* fn main() -> i32 { return x; }  fn f() -> () { let x: () = 1; } :
\* both functions fail and run returns the error of f.
C5_Witness ==
    /\ ast = <<ItemFn("main", 0, "i32", <<Return(Ident("x"))>>),
               ItemFn("f", 0, "()", <<Local("x", "()", Lit(1))>>)>>
    /\ TypeckDone
    /\ tc_log[1].res = Err("UndefinedName", <<1, 1>>)
    /\ tc_result = Err("LocalTypeMismatch", <<2, 1>>)

(***************************************************************************)
(* Claims about the instruction constructors.                              *)
(***************************************************************************)
\* C11: no Binary, Copy or Call instruction with a Const destination is ever
\* built (the constructor answers with an error value instead), and nothing
\* aborts the process: rendering what was built never panics.
C11_ConstDestinationRejected ==
    /\ \A p \in DOMAIN made : made[p].da.kind /= "Const"
    /\ IsSome(readable) => Unwrap(readable).tag /= "Panic"

\* CopyInstr::new(Addr::Const(0), Addr::Temp(0)) handed back the instruction,
\* and human_readable panicked on it.
C11_Witness ==
    /\ made = <<CopyInstr_new(AddrConst(0), AddrTemp(0))>>
    /\ readable = Some(ReadablePanic)

(***************************************************************************)
(* Claims about the instructions a lowering emits.                         *)
(***************************************************************************)
\* The positions of the instructions whose destination is a Temp.
TempDests == {p \in DOMAIN le.instrs : HasDest(le.instrs[p]) /\ le.instrs[p].da.kind = "Temp"}

\* C12: the temporary counter starts at 0 and never decreases, and no two
\* instructions of the sequence have the same Temp as destination (every Temp
\* destination was handed out by the counter, once).
C12_TempsFresh ==
    /\ le.next_temp = 0
    /\ [][le'.next_temp >= le.next_temp]_vars
    /\ [](\A p \in TempDests :
              /\ le.instrs[p].da.index < le.next_temp
              /\ \A q \in TempDests : p /= q => le.instrs[p].da.index /= le.instrs[q].da.index)

\* A finished lowering of two functions, each with an instruction writing a Temp.
C12_Witness ==
    /\ le_pc.phase = "done"
    /\ Len(le_fns) = 2
    /\ \E p \in TempDests : p - 1 < le_fns[2].index
    /\ \E p \in TempDests : p - 1 >= le_fns[2].index
    /\ le.next_temp = Cardinality(TempDests)

(***************************************************************************)
(* The layout the lowering of an expression is to have, read off the       *)
(* expression alone: Size(e) instructions, the operands and arguments in   *)
(* order, the instruction holding the value of e last.                     *)
(***************************************************************************)
RECURSIVE Size(_)
RECURSIVE SizeArgs(_)
Size(e) ==
    CASE e.kind = "Binary" -> Size(e.lhs) + Size(e.rhs) + 1
      [] e.kind = "Call" -> SizeArgs(e.args) + 1
      [] OTHER -> 1

\* The arguments of a call, a Param after each.
SizeArgs(args) ==
    IF args = <<>> THEN 0 ELSE Size(Head(args)) + 1 + SizeArgs(Tail(args))

\* The sub-expressions of e, each with the 0-based index its instructions
\* start at when those of e start at p.
RECURSIVE Nodes(_, _)
RECURSIVE NodesArgs(_, _)
Nodes(e, p) ==
    {[e |-> e, at |-> p]}
        \cup CASE e.kind = "Binary" -> Nodes(e.lhs, p) \cup Nodes(e.rhs, p + Size(e.lhs))
               [] e.kind = "Call" -> NodesArgs(e.args, p)
               [] OTHER -> {}

NodesArgs(args, p) ==
    IF args = <<>> THEN {}
    ELSE Nodes(Head(args), p) \cup NodesArgs(Tail(args), p + Size(Head(args)) + 1)

\* The index of the instruction holding the value of a node.
ResultAt(node) == node.at + Size(node.e) - 1

\* The index of the Param of argument i of a call node.
ParamAt(node, i) == node.at + SizeArgs(SubSeq(node.e.args, 1, i)) - 1

\* The instruction with 0-based index i of a sequence.
At(instrs, i) == instrs[i + 1]

\* The destination was handed out after next_temp stood at before, and no
\* other instruction of the sequence writes it.
FreshTemp(instrs, i, before) ==
    /\ At(instrs, i).da.kind = "Temp"
    /\ At(instrs, i).da.index >= before
    /\ \A p \in DOMAIN instrs :
          (p /= i + 1 /\ HasDest(instrs[p])) => instrs[p].da /= At(instrs, i).da

\* A step of the traversal that lowered the statement it stood at.
StmtLowered ==
    /\ le_pc.phase = "body"
    /\ le_pc'.phase = "body"
    /\ le_pc'.stmt = le_pc.stmt + 1

\* The statement the traversal stands at, and the nodes of its expression.
CurStmt == ast[le_pc.item].body[le_pc.stmt]
CurNodes == Nodes(CurStmt.expr, Len(le.instrs))

\* The instructions of a call node: a Param after each argument, carrying the
\* destination of the instruction holding the argument's value, then the Call.
CallShapeAt(instrs, node, before) ==
    /\ \A i \in DOMAIN node.e.args :
          /\ At(instrs, ParamAt(node, i)).kind = "Param"
          /\ HasDest(At(instrs, ParamAt(node, i) - 1))
          /\ At(instrs, ParamAt(node, i)).ad = At(instrs, ParamAt(node, i) - 1).da
    /\ At(instrs, ResultAt(node)).kind = "Call"
    /\ At(instrs, ResultAt(node)).n = Len(node.e.args)
    /\ FreshTemp(instrs, ResultAt(node), before)

\* C13: a call with n arguments is lowered to its arguments in order, each
\* followed by the Param carrying the destination of its value, then the Call
\* with a fresh Temp destination and count n; the statement has no Param
\* besides those of its calls, and nothing after the statement's own
\* instruction.
C13_ParamsThenCall ==
    [][StmtLowered =>
          /\ Len(le'.instrs) = Len(le.instrs) + Size(CurStmt.expr) + 1
          /\ \A node \in CurNodes :
                node.e.kind = "Call" => CallShapeAt(le'.instrs, node, le.next_temp)
          /\ \A p \in (Len(le.instrs) + 1)..Len(le'.instrs) :
                le'.instrs[p].kind = "Param" =>
                    \E node \in CurNodes :
                        /\ node.e.kind = "Call"
                        /\ \E i \in DOMAIN node.e.args : ParamAt(node, i) = p - 1]_vars

\* return f(f(2), 1); lowered: t0 = 2, param t0, t1 = call, param t1, t2 = 1,
\* param t2, t3 = call, ret t3.
C13_Witness ==
    /\ Len(le.instrs) = 8
    /\ le.instrs[2].kind = "Param" /\ le.instrs[2].ad = AddrTemp(0)
    /\ le.instrs[3].kind = "Call" /\ le.instrs[3].n = 1
    /\ le.instrs[4].kind = "Param" /\ le.instrs[4].ad = le.instrs[3].da
    /\ le.instrs[6].kind = "Param" /\ le.instrs[6].ad = le.instrs[5].da
    /\ le.instrs[7].kind = "Call" /\ le.instrs[7].n = 2
    /\ le.instrs[8].kind = "Return"

\* The instruction holding the value of a node is of the node's kind, a
\* literal's with the pool index of its value as source.
ValueShapeAt(instrs, node, pool_after) ==
    CASE node.e.kind = "Binary" -> At(instrs, ResultAt(node)).kind = "Binary"
      [] node.e.kind = "Call" -> At(instrs, ResultAt(node)).kind = "Call"
      [] node.e.kind = "Ident" ->
            /\ At(instrs, ResultAt(node)).kind = "Copy"
            /\ At(instrs, ResultAt(node)).ad.kind = "Name"
      [] node.e.kind = "Lit" ->
            /\ At(instrs, ResultAt(node)).kind = "Copy"
            /\ At(instrs, ResultAt(node)).ad.kind = "Const"
            /\ Pool_value_of(pool_after, At(instrs, ResultAt(node)).ad.index)
                   = Some(node.e.value)

\* The instructions of a binary node: those of the left operand, then those
\* of the right one, then the Binary over the destinations of the two values.
BinaryShapeAt(instrs, node, before, pool_after) ==
    LET l == [e |-> node.e.lhs, at |-> node.at]
        r == [e |-> node.e.rhs, at |-> node.at + Size(node.e.lhs)]
        b == At(instrs, ResultAt(node))
    IN /\ ValueShapeAt(instrs, l, pool_after)
       /\ ValueShapeAt(instrs, r, pool_after)
       /\ ResultAt(r) = ResultAt(node) - 1
       /\ b.kind = "Binary"
       /\ b.la = At(instrs, ResultAt(l)).da
       /\ b.ra = At(instrs, ResultAt(r)).da
       /\ FreshTemp(instrs, ResultAt(node), before)

\* C14: a binary expression is lowered to the instructions of its left
\* operand, then those of its right operand, then one Binary whose operands are
\* the destinations of the two values and whose destination is a fresh Temp;
\* the index returned is the Binary's: the statement's own instruction reads
\* the Binary's destination when the statement's expression is the binary.
C14_LeftRightThenBinary ==
    [][StmtLowered =>
          /\ \A node \in CurNodes :
                node.e.kind = "Binary" =>
                    BinaryShapeAt(le'.instrs, node, le.next_temp, le'.pool)
          /\ CurStmt.expr.kind = "Binary" =>
                /\ Len(le'.instrs) = Len(le.instrs) + Size(CurStmt.expr) + 1
                /\ le'.instrs[Len(le'.instrs)].ad = le'.instrs[Len(le'.instrs) - 1].da]_vars

\* let x: i32 = 1 + 2; lowered: t0 = 1, t1 = 2, t2 = t0 + t1, x0 = t2.
C14_Witness ==
    /\ Len(le.instrs) = 4
    /\ le.instrs[1] = CopyInstr_new(AddrTemp(0), AddrConst(0))
    /\ le.instrs[2] = CopyInstr_new(AddrTemp(1), AddrConst(1))
    /\ le.instrs[3] = BinInstr_new(AddrTemp(2), AddrTemp(0), "Plus", AddrTemp(1))
    /\ le.instrs[4] = CopyInstr_new(AddrName(0), AddrTemp(2))

\* The last instruction of a sequence.
Last(instrs) == instrs[Len(instrs)]

\* C15: `let x: T = e` lowers e before it binds x: every identifier of e, x
\* included, is read from the Name index it had before the statement; the
\* statement ends with a Copy of e's value into a Name index no earlier insert
\* returned and no other instruction writes, and from then on x resolves to
\* that index.
C15_LetBindsAfterExpr ==
    [][(StmtLowered /\ CurStmt.kind = "Local") =>
          /\ \A node \in CurNodes :
                node.e.kind = "Ident" =>
                    /\ At(le'.instrs, ResultAt(node)).ad.kind = "Name"
                    /\ Mapper_find(le.name_map, node.e.repr)
                           = Some(At(le'.instrs, ResultAt(node)).ad.index)
          /\ Last(le'.instrs).kind = "Copy"
          /\ Last(le'.instrs).ad = le'.instrs[Len(le'.instrs) - 1].da
          /\ Last(le'.instrs).da.kind = "Name"
          /\ Last(le'.instrs).da.index >= le.name_map.next
          /\ \A p \in 1..(Len(le'.instrs) - 1) :
                HasDest(le'.instrs[p]) => le'.instrs[p].da /= Last(le'.instrs).da
          /\ Mapper_find(le'.name_map, CurStmt.ident)
                 = Some(Last(le'.instrs).da.index)]_vars

\* let x: i32 = 1; let x: i32 = x; lowered: the second x0 is read, x1 written.
C15_Witness ==
    /\ Len(le.instrs) = 4
    /\ le.instrs[2] = CopyInstr_new(AddrName(0), AddrTemp(0))
    /\ le.instrs[3] = CopyInstr_new(AddrTemp(1), AddrName(0))
    /\ le.instrs[4] = CopyInstr_new(AddrName(1), AddrTemp(1))
    /\ Mapper_find(le.name_map, "x") = Some(1)

\* The two statements of the example, and the step that lowers the second
\* right after the first.
TheLet == Local("x", "i32", Binary(Lit(1), "Add", Lit(2)))
TheReturn == Return(Ident("x"))
ReturnAfterLetLowered ==
    /\ StmtLowered
    /\ le_pc.stmt >= 2
    /\ ast[le_pc.item].body[le_pc.stmt - 1] = TheLet
    /\ CurStmt = TheReturn

\* The instructions of the let: two Copies from the constants 1 and 2, the
\* Binary over their destinations, the Copy of its result into a fresh Name.
LetShape(instrs, pool_after) ==
    LET n == Len(instrs)
    IN /\ n >= 4
       /\ instrs[n - 3].kind = "Copy" /\ instrs[n - 3].ad.kind = "Const"
       /\ Pool_value_of(pool_after, instrs[n - 3].ad.index) = Some(1)
       /\ instrs[n - 2].kind = "Copy" /\ instrs[n - 2].ad.kind = "Const"
       /\ Pool_value_of(pool_after, instrs[n - 2].ad.index) = Some(2)
       /\ instrs[n - 1].kind = "Binary"
       /\ instrs[n - 1].la = instrs[n - 3].da
       /\ instrs[n - 1].ra = instrs[n - 2].da
       /\ instrs[n].kind = "Copy"
       /\ instrs[n].ad = instrs[n - 1].da
       /\ instrs[n].da.kind = "Name"
       /\ \A p \in 1..(n - 1) : HasDest(instrs[p]) => instrs[p].da /= instrs[n].da

\* C16 as stated: `let x: i32 = 1 + 2;` followed by `return x;` lowers to the
\* Binary over two Copies from constants, the Copy binding a fresh Name, and a
\* final Return whose address is that Name.
C16_ReturnReferencesName ==
    [][ReturnAfterLetLowered =>
          /\ LetShape(le.instrs, le'.pool)
          /\ Last(le'.instrs).kind = "Return"
          /\ Last(le'.instrs).ad = Last(le.instrs).da]_vars

\* C16 amended: the final Return carries the fresh Temp into which the
\* statement's one extra Copy has read that Name.
C16_ReturnReferencesCopyOfName ==
    [][ReturnAfterLetLowered =>
          /\ LetShape(le.instrs, le'.pool)
          /\ Len(le'.instrs) = Len(le.instrs) + 2
          /\ le'.instrs[Len(le.instrs) + 1].kind = "Copy"
          /\ le'.instrs[Len(le.instrs) + 1].ad = Last(le.instrs).da
          /\ FreshTemp(le'.instrs, Len(le.instrs), le.next_temp)
          /\ Last(le'.instrs).kind = "Return"
          /\ Last(le'.instrs).ad = le'.instrs[Len(le.instrs) + 1].da]_vars

\* let x: i32 = 1 + 2; return x; lowered: ..., x0 = t2, t3 = x0, return t3.
C16_Witness ==
    /\ le_pc.phase = "body"
    /\ ast[le_pc.item].body = <<TheLet, TheReturn>>
    /\ Len(le.instrs) = 6
    /\ le.instrs[4] = CopyInstr_new(AddrName(0), AddrTemp(2))
    /\ le.instrs[5] = CopyInstr_new(AddrTemp(3), AddrName(0))
    /\ le.instrs[6] = RetInstr_new(AddrTemp(3))

\* A step of the type check over a function, the function, and what the step
\* logged about it.
FnChecked == tc_log' /= tc_log
CurFn == ast[tc_pc.item]
AllStmtsOk(entry, body) ==
    /\ Len(entry.checks) = Len(body)
    /\ \A j \in DOMAIN entry.checks : entry.checks[j].tag = "Ok"

\* The type computed for the last statement of a body, unit for an empty one.
LastStmtType(entry) ==
    IF entry.checks = <<>> THEN TypePrimitive("()") ELSE Last(entry.checks).ty

\* C17: a function whose declared return type is not registered fails with
\* UnknownType; a function whose statements all type-check succeeds when the
\* type of its last statement (unit for an empty body) has the name of the
\* declared return type, and fails with ReturnTypeMismatch when it has not.
C17_ReturnTypeVerdict ==
    [][FnChecked =>
          /\ Resolver_resolve_ty(resolver.table, CurFn.ty) = None =>
                /\ Last(tc_log').res.tag = "Err"
                /\ Last(tc_log').res.kind = "UnknownType"
          /\ (/\ Resolver_resolve_ty(resolver.table, CurFn.ty) /= None
              /\ AllStmtsOk(Last(tc_log'), CurFn.body)) =>
                IF Type_name(LastStmtType(Last(tc_log'))) = CurFn.ty
                THEN Last(tc_log').res.tag = "Ok"
                ELSE /\ Last(tc_log').res.tag = "Err"
                     /\ Last(tc_log').res.kind = "ReturnTypeMismatch"]_vars

\* fn f() -> () { let f: () = f(); } : the let type-checks and has the
\* declared type (), and the function fails with UndefinedFunction.
C17_Witness ==
    /\ ast = <<ItemFn("f", 0, "()", <<Local("f", "()", CallFn("f", <<>>))>>)>>
    /\ Len(tc_log) = 1
    /\ tc_log[1].checks = <<Ok(TypePrimitive("()"))>>
    /\ tc_log[1].res = Err("UndefinedFunction", <<1, 1>>)

\* The table the two resolver passes leave for the file.
CollectedTable ==
    Resolver_visit_file(Resolver_visit_file(Resolver_new.table, ast, "Types"),
                        ast, "Functions")

\* The table with a Local registered for every let of body, from statement j
\* on, whose check answered Ok; and the same over the functions logged from
\* entry k on.
RECURSIVE LetsRegistered(_, _, _, _)
LetsRegistered(table, body, checks, j) ==
    IF j > Len(checks) THEN table
    ELSE LetsRegistered(IF body[j].kind = "Local" /\ checks[j].tag = "Ok"
                        THEN SymbolTable_insert(table, body[j].ident,
                                                SymbolLocal(checks[j].ty))
                        ELSE table,
                        body, checks, j + 1)

RECURSIVE LogRegistered(_, _)
LogRegistered(table, k) ==
    IF k > Len(tc_log) THEN table
    ELSE LogRegistered(LetsRegistered(table, ast[tc_log[k].item].body,
                                      tc_log[k].checks, 1),
                       k + 1)

\* C18: the check of a let answers Ok only when the expression's type is the
\* declared one, and the type check changes the table by exactly the Locals
\* of the lets whose check answered Ok: a let whose check fails (an error in
\* the expression, an unknown declared type, a mismatch) leaves the table as
\* it was.
C18_LetRegistersOnlyOnMatch ==
    tc_pc.phase \in {"typeck", "done"} =>
        /\ \A k \in DOMAIN tc_log : \A j \in DOMAIN tc_log[k].checks :
              (/\ ast[tc_log[k].item].body[j].kind = "Local"
               /\ tc_log[k].checks[j].tag = "Ok")
                 => Type_name(tc_log[k].checks[j].ty) = ast[tc_log[k].item].body[j].ty
        /\ resolver.table = LogRegistered(CollectedTable, 1)

\* fn f() -> () { let f: () = f(); let x: S = 1; }  struct S {} : the first
\* let is registered, the second is a mismatch and x is not in the table.
C18_Witness ==
    /\ ast = <<ItemFn("f", 0, "()", <<Local("f", "()", CallFn("f", <<>>)),
                                      Local("x", "S", Lit(1))>>),
               TheStruct>>
    /\ Len(tc_log) = 1
    /\ tc_log[1].checks = <<Ok(TypePrimitive("()")), Err("LocalTypeMismatch", <<1, 2>>)>>
    /\ SymbolTable_find(resolver.table, "f") = Some(SymbolLocal(TypePrimitive("()")))
    /\ SymbolTable_find(resolver.table, "x") = None

\* The statements logged whose expression is a call: <<entry, statement>>.
CallChecks ==
    {kj \in UNION {{<<k, j>> : j \in DOMAIN tc_log[k].checks} : k \in DOMAIN tc_log} :
        ast[tc_log[kj[1]].item].body[kj[2]].expr.kind = "Call"}
StmtOf(kj) == ast[tc_log[kj[1]].item].body[kj[2]]
CheckOf(kj) == tc_log[kj[1]].checks[kj[2]]

\* C19: the check of a call f(args) yields the return type the Resolver
\* registered for f when it collected a function named f, and fails with
\* UndefinedFunction when it collected none, whatever the arguments: a
\* returned call checks to exactly that, and a let of a call fails with
\* UndefinedFunction exactly when no f was collected.
C19_CallYieldsRegisteredReturnType ==
    \A kj \in CallChecks :
        LET f == Resolver_resolve_fn(CollectedTable, StmtOf(kj).expr.ident)
        IN IF StmtOf(kj).kind = "Return"
           THEN CheckOf(kj) = OkOrErr(f, "UndefinedFunction",
                                      <<tc_log[kj[1]].item, kj[2]>>)
           ELSE (CheckOf(kj).tag = "Err" /\ CheckOf(kj).kind = "UndefinedFunction")
                    <=> f = None

\* fn f() -> () { let f: () = f(); return f(); } : the Resolver collected f,
\* and the returned call fails with UndefinedFunction.
C19_Witness ==
    /\ ast = <<ItemFn("f", 0, "()", <<Local("f", "()", CallFn("f", <<>>)),
                                      Return(CallFn("f", <<>>))>>)>>
    /\ Len(tc_log) = 1
    /\ tc_log[1].checks = <<Ok(TypePrimitive("()")), Err("UndefinedFunction", <<1, 2>>)>>

\* The state in which collect_tys and collect_functions have both returned and
\* the type check has not started; the table collect_tys leaves for the file.
PassesDone == tc_pc.phase = "typeck" /\ tc_pc.item = 1 /\ tc_log = <<>>
TysTable == Resolver_visit_file(Resolver_new.table, ast, "Types")

\* C20: after collect_tys and collect_functions every top-level function item
\* is registered as a Function whose return type is the type registered under
\* the declared return-type name, a primitive or a struct declared anywhere in
\* the file, or unit when no type has that name.
C20_EveryFunctionRegistered ==
    PassesDone =>
        \A i \in DOMAIN ast :
            ast[i].kind = "Fn" =>
                SymbolTable_find(resolver.table, ast[i].ident)
                    = Some(SymbolFunction(
                               UnwrapOrUnit(Resolver_resolve_ty(TysTable, ast[i].ty))))

\* struct S {}  fn S() -> i32 {}  fn g() -> S {} : g is registered with the
\* return type unit although the struct S is declared.
C20_Witness ==
    /\ PassesDone
    /\ ast = <<TheStruct, ItemFn("S", 0, "i32", <<>>), ItemFn("g", 0, "S", <<>>)>>
    /\ IsSome(Resolver_resolve_ty(TysTable, "S"))
    /\ SymbolTable_find(resolver.table, "g") = Some(SymbolFunction(TypePrimitive("()")))

(***************************************************************************)
(* Claims about scopes, names and the resolver's table.                    *)
(***************************************************************************)
\* The number of tables of a scope chain.
RECURSIVE Depth(_)
Depth(table) == IF table.previous = None THEN 1 ELSE 1 + Depth(Unwrap(table.previous))

StmtVisited ==
    /\ le_pc.phase = "body"
    /\ le_pc.stmt <= Len(ast[le_pc.item].body)
    /\ le_pc' /= le_pc

\* The names an expression reads or calls that the respective mapper of the
\* engine binds in no scope.
UnboundIn(e) ==
    {n.e.repr : n \in {m \in Nodes(e, 0) :
                          /\ m.e.kind = "Ident"
                          /\ Mapper_find(le.name_map, m.e.repr) = None}}
        \cup {n.e.ident : n \in {m \in Nodes(e, 0) :
                                    /\ m.e.kind = "Call"
                                    /\ Mapper_find(le.fn_map, m.e.ident) = None}}

UnresolvedPanics == {"UnresolvedName", "UnresolvedFn"}

\* C22: a statement whose expression reads an identifier or calls a function
\* bound in no scope of the respective mapper ends the lowering with the
\* failure of an unresolved name, that name's; no IRRoot is produced then or
\* later, and the instructions emitted before the failure read only Name
\* indices and call only labels that the mappers had issued.  A statement
\* with no such name does not fail so.
C22_UnresolvedNameIsHardFailure ==
    /\ [](Panicked(le) => (ir = None /\ le_pc.phase = "panic"))
    /\ [][StmtVisited =>
             IF UnboundIn(CurStmt.expr) /= {}
             THEN /\ le'.panic \in UnresolvedPanics
                  /\ le'.panic_at \in UnboundIn(CurStmt.expr)
                  /\ le_pc'.phase = "panic"
                  /\ ir' = None
                  /\ \A p \in (Len(le.instrs) + 1)..Len(le'.instrs) :
                        /\ (le'.instrs[p].kind = "Copy" /\ le'.instrs[p].ad.kind = "Name")
                              => le'.instrs[p].ad.index < le.name_map.next
                        /\ le'.instrs[p].kind = "Call"
                              => le'.instrs[p].fl < le.fn_map.next
             ELSE le'.panic \notin UnresolvedPanics]_vars

\* fn f() -> i32 { return f(f(2), 1); return x * 1; } : the call is lowered,
\* the unbound x ends the lowering.
C22_Witness ==
    /\ le.panic = "UnresolvedName"
    /\ le.panic_at = "x"
    /\ le_pc.phase = "panic"
    /\ le_pc.stmt = 2
    /\ \E p \in DOMAIN le.instrs : le.instrs[p].kind = "Call"
    /\ ir = None

\* C23: a file for which the Resolver passes and TypeCk.run returned Ok is
\* lowered without failure.
C23_TypeCheckedFilesLower == TypeckPassed => ~Panicked(le)

\* fn f() -> () { return f(y); } : run returns Ok, the arguments of a call
\* not being checked, and lowering fails on the unbound y.
C23_Witness ==
    /\ ast = <<ItemFn("f", 0, "()", <<Return(CallFn("f", <<Ident("y")>>))>>)>>
    /\ TypeckPassed
    /\ le.panic = "UnresolvedName"
    /\ le.panic_at = "y"

\* The block of the function logged as k came out Ok: the function did, or it
\* failed on the comparison of the block's type with the declared one.
BlockOk(k) == tc_log[k].res.tag = "Ok" \/ tc_log[k].res.kind = "ReturnTypeMismatch"

\* C24: the verdict of a function body is that of its statements checked once
\* each in order: the body comes out Ok when the one check of its last
\* statement did, and with that check's error when it did not; the second
\* check of the last statement changes nothing.
C24_SecondCheckKeepsVerdict ==
    \A k \in DOMAIN tc_log :
        tc_log[k].checks /= <<>> =>
            IF Last(tc_log[k].checks).tag = "Ok"
            THEN BlockOk(k)
            ELSE tc_log[k].res = Last(tc_log[k].checks)

\* fn f() -> () { let f: () = f(); }  struct S {} : checked once the let is
\* Ok, and the body fails on the second check of it.
C24_Witness ==
    /\ ast = <<ItemFn("f", 0, "()", <<Local("f", "()", CallFn("f", <<>>))>>), TheStruct>>
    /\ TypeckDone
    /\ tc_log[1].checks = <<Ok(TypePrimitive("()"))>>
    /\ ~BlockOk(1)
    /\ tc_result = Err("UndefinedFunction", <<1, 1>>)

\* The names of the types, functions and variables of the files.
TableNames == {"()", "i32", "S", "main", "f", "g", "x", "y"}

\* C25: once collect_tys has run, resolve_ty answers for every name what it
\* answered then, after collect_functions and after every Local the type check
\* registers; and once collect_functions has run, resolve_fn answers for every
\* name what it answered then, whatever Local is registered.
C25_ResolutionIsStable ==
    /\ tc_pc.phase \in {"collect_functions", "typeck", "done"} =>
          \A n \in TableNames :
              Resolver_resolve_ty(resolver.table, n) = Resolver_resolve_ty(TysTable, n)
    /\ tc_pc.phase \in {"typeck", "done"} =>
          \A n \in TableNames :
              Resolver_resolve_fn(resolver.table, n) = Resolver_resolve_fn(CollectedTable, n)

\* struct S {}  fn S() -> i32 {} : after collect_functions S is no type.
C25_Witness ==
    /\ ast = <<TheStruct, ItemFn("S", 0, "i32", <<>>)>>
    /\ PassesDone
    /\ IsSome(Resolver_resolve_ty(TysTable, "S"))
    /\ Resolver_resolve_ty(resolver.table, "S") = None

(***************************************************************************)
(* Claims about the instructions of a statement, read off the state the    *)
(* traversal is in right after the statement.                              *)
(***************************************************************************)
\* The traversal stands right after a statement of a function body.
AfterStmt == le_pc.phase = "body" /\ le_pc.stmt >= 2

\* That statement, the 0-based index of its first instruction (a statement
\* adds one instruction to those of its expression), and its nodes.
PrevStmt == ast[le_pc.item].body[le_pc.stmt - 1]
PrevStart == Len(le.instrs) - Size(PrevStmt.expr) - 1
PrevNodes == Nodes(PrevStmt.expr, PrevStart)

\* The instructions at the 1-based positions p..Len(instrs) run over a stack
\* of instruction indices: a Param pushes its own index, a Call with count n
\* pops n.  under tells whether a Call found fewer than n entries; pops holds,
\* for every Call, its index and the entries it popped, bottom first.
RECURSIVE RunParams(_, _, _, _)
RunParams(instrs, p, stack, pops) ==
    IF p > Len(instrs) THEN [under |-> FALSE, stack |-> stack, pops |-> pops]
    ELSE IF instrs[p].kind = "Param"
    THEN RunParams(instrs, p + 1, Append(stack, p - 1), pops)
    ELSE IF instrs[p].kind = "Call"
    THEN IF instrs[p].n > Len(stack)
         THEN [under |-> TRUE, stack |-> stack, pops |-> pops]
         ELSE RunParams(instrs, p + 1, SubSeq(stack, 1, Len(stack) - instrs[p].n),
                        pops \cup {<<p - 1, SubSeq(stack, Len(stack) - instrs[p].n + 1,
                                                   Len(stack))>>})
    ELSE RunParams(instrs, p + 1, stack, pops)

\* The Params of the arguments of a call node, in order.
OwnParams(node) == [i \in DOMAIN node.e.args |-> ParamAt(node, i)]

\* What the run over the instructions of a statement must come to.
StackDiscipline(run, nodes) ==
    /\ ~run.under
    /\ run.stack = <<>>
    /\ \A node \in nodes :
          node.e.kind = "Call" => <<ResultAt(node), OwnParams(node)>> \in run.pops

\* C26: over the instructions of a statement, a Param read as a push and a
\* Call with count n as a pop of n, the stack never underflows and is empty at
\* the end, and every Call pops the Params of its own arguments, in order,
\* also when the arguments contain calls.
C26_ParamCallStack ==
    AfterStmt =>
        StackDiscipline(RunParams(le.instrs, PrevStart + 1, <<>>, {}), PrevNodes)

\* return f(f(2), 1) lowered: the inner Call pops the Param at 1, the outer
\* one the Params at 3 and 5.
C26_Witness ==
    /\ AfterStmt
    /\ PrevStmt = Return(CallFn("f", <<CallFn("f", <<Lit(2)>>), Lit(1)>>))
    /\ PrevStart = 0
    /\ RunParams(le.instrs, 1, <<>>, {}).pops = {<<2, <<1>>>>, <<6, <<3, 5>>>>}

\* The bodies of the file in the order they are lowered: that of a function
\* item, those of the functions of an impl item.
RECURSIVE BodiesOf(_)
BodiesOf(items) ==
    IF items = <<>> THEN <<>>
    ELSE (CASE Head(items).kind = "Fn" -> <<Head(items).body>>
            [] Head(items).kind = "Impl" -> Head(items).items
            [] OTHER -> <<>>) \o BodiesOf(Tail(items))

\* The number of instructions of a body, and of the first u bodies.
RECURSIVE BodySize(_)
BodySize(body) ==
    IF body = <<>> THEN 0 ELSE Size(Head(body).expr) + 1 + BodySize(Tail(body))

RECURSIVE BodiesSize(_, _)
BodiesSize(bodies, u) ==
    IF u = 0 THEN 0 ELSE BodiesSize(bodies, u - 1) + BodySize(bodies[u])

\* The 0-based index of the first instruction of the function whose
\* instructions hold the one with index i.
FnStartOf(i) ==
    LET bodies == BodiesOf(ast)
        u == CHOOSE v \in DOMAIN bodies :
                 /\ BodiesSize(bodies, v - 1) <= i
                 /\ i < BodiesSize(bodies, v)
    IN BodiesSize(bodies, u - 1)

\* The addresses an instruction reads.
Sources(instr) ==
    CASE instr.kind = "Binary" -> {instr.la, instr.ra}
      [] instr.kind \in {"Copy", "Param", "Return"} -> {instr.ad}
      [] OTHER -> {}

\* C27: every Temp or Name an instruction reads is the destination of an
\* earlier instruction of the same function, and every Const it reads is an
\* index of the integer pool.
C27_SourcesDefinedEarlier ==
    \A p \in DOMAIN le.instrs : \A a \in Sources(le.instrs[p]) :
        IF a.kind = "Const" THEN IsSome(Pool_value_of(le.pool, a.index))
        ELSE \E q \in (FnStartOf(p - 1) + 1)..(p - 1) :
                 HasDest(le.instrs[q]) /\ le.instrs[q].da = a

\* impl S { fn .. { let x: i32 = 1; } }  fn main() -> i32 { return x; } :
\* main reads the Name x0 that the function of the impl wrote.
C27_Witness ==
    /\ ast = <<TheImpl, ItemFn("main", 0, "i32", <<Return(Ident("x"))>>)>>
    /\ le_pc.phase = "done"
    /\ le.instrs[2] = CopyInstr_new(AddrName(0), AddrTemp(0))
    /\ le.instrs[3].ad = AddrName(0)
    /\ FnStartOf(2) = 2

\* The number of function items of the file.
FnItems == Cardinality({i \in DOMAIN ast : ast[i].kind = "Fn"})

\* C28: for every file, one with no function item included, the computation
\* of last_label does not underflow, and the IRRoot that lower() returns has
\* the highest label issued, the number of function items minus one, as its
\* last_label.
C28_LastLabel ==
    /\ le.panic /= "Overflow"
    /\ le_pc.phase = "done" =>
          /\ IsSome(ir)
          /\ Unwrap(ir).last_label = FnItems - 1

\* struct S {} : no label is issued, and `fn_map.next - 1` underflows.
C28_Witness ==
    /\ ast = <<TheStruct>>
    /\ le.fn_map.next = 0
    /\ le.panic = "Overflow"
    /\ ir = None


(***************************************************************************)
(* Claims about the analyses.                                              *)
(***************************************************************************)
SemaRan == IsSome(sema_result)

\* The top-level functions of the file named main.
Mains == {i \in DOMAIN ast : ast[i].kind = "Fn" /\ ast[i].ident = "main"}

\* The analyses whose error SemaEngine.run returned.
FailedAnalyses ==
    IF SemaRan /\ Unwrap(sema_result).tag = "Err"
    THEN {Unwrap(sema_result).errors[j].by : j \in DOMAIN Unwrap(sema_result).errors}
    ELSE {}

\* C29: an analysis (Basic) returns an error iff no top-level function is
\* named main, the error then being "Could not find the main function", or a
\* top-level function named main declares one or more parameters; and
\* SemaEngine.run returns Ok iff no registered analysis returned an error,
\* else the errors of all of them in the order of registration.
C29_MainCheck ==
    SemaRan =>
        /\ FailedAnalyses = IF Mains = {} \/ \E i \in Mains : ast[i].params >= 1
                    THEN DOMAIN sema ELSE {}
        /\ Unwrap(sema_result).tag = "Ok" <=> FailedAnalyses = {}
        /\ Unwrap(sema_result).tag = "Err" =>
              /\ Len(Unwrap(sema_result).errors) = Cardinality(FailedAnalyses)
              /\ \A j, k \in DOMAIN Unwrap(sema_result).errors :
                    j < k => Unwrap(sema_result).errors[j].by
                                < Unwrap(sema_result).errors[k].by
              /\ \A j \in DOMAIN Unwrap(sema_result).errors :
                    Mains = {} <=> Unwrap(sema_result).errors[j].error.reason = "NoMain"

\* Two analyses ran over `fn main(a) -> i32 {} fn main() -> i32 {}` and
\* SemaEngine.run returned Ok.
C29_Witness ==
    /\ SemaRan
    /\ ast = <<ItemFn("main", 1, "i32", <<>>), ItemFn("main", 0, "i32", <<>>)>>
    /\ Len(sema) = 2
    /\ Unwrap(sema_result).tag = "Ok"

(***************************************************************************)
(* Claims about the register manager.                                      *)
(***************************************************************************)
FreeList == {regs.free[k] : k \in DOMAIN regs.free}

LastRegOp == reg_hist[Len(reg_hist)]

\* C30: after any sequence of get_free, set_free and set_used the free list
\* holds, once each, exactly the registers i with is_free(i); a register
\* just returned by get_free is not free, and a register just passed to
\* set_free is in the free list, where get_free finds it.
C30_FreeListAgrees ==
    /\ \A j, k \in DOMAIN regs.free : regs.free[j] = regs.free[k] => j = k
    /\ FreeList = {i \in RegIndices : RegMgr_is_free(regs, i)}
    /\ reg_hist /= <<>> =>
          /\ LastRegOp.op = "get_free" =>
                \A i \in RegIndices : LastRegOp.result = Some(i) => ~RegMgr_is_free(regs, i)
          /\ LastRegOp.op = "set_free" =>
                \A i \in RegIndices : LastRegOp.result = Some(i) => i \in FreeList

\* get_free returned register 0, set_free(0) followed, and the next get_free
\* returned None although is_free(0) holds.
C30_Witness ==
    /\ reg_hist = <<[op |-> "get_free", result |-> Some(0)],
                    [op |-> "set_free", result |-> Some(0)],
                    [op |-> "get_free", result |-> None]>>
    /\ RegMgr_is_free(regs, 0)
    /\ regs.free = <<>>

=============================================================================
